---- MODULE Spec2Model ----
(***************************************************************************)
(* A state-machine model of the bikecurious telemetry readers:             *)
(*   - iConsoleDataReader        (src/iconsole_reader.py)       "base"     *)
(*   - FixedConsoleDataReader    (src/helth_daemon.py)          "fixed"    *)
(*   - iConsoleDataReader        (src/python_app/iconsole_reader.py) "app" *)
(*                                                                         *)
(* Units.  Python floats are modelled in fixed point:                      *)
(*   speed      0.01 km/h          (37.89 km/h  is 3789)                   *)
(*   cadence    0.01 RPM                                                   *)
(*   distance   0.0001 m           (1.0525 m    is 10525); a kilometre     *)
(*              total (total_km, total_distance_km) is held in the same    *)
(*              unit, so that x / 1000.0 and x * 1000.0 are the identity   *)
(*   wall clock 0.5 s              (time.time(); 1.0 s is 2)               *)
(* Divisions round toward minus infinity where the float would round to    *)
(* nearest; the properties below are stated so that one unit of rounding   *)
(* does not decide them.                                                   *)
(*                                                                         *)
(* A 32-bit wheel counter does not fit a model integer, so it is held as   *)
(* two 16-bit limbs <<hi, lo>>, value hi * 65536 + lo.                     *)
(***************************************************************************)
EXTENDS Integers, Sequences, FiniteSets, TLC

VARIABLES
    kind,                \* which reader class this run constructs
    now,                 \* time.time()
    last_wheel_revs,     \* self.last_wheel_revs   (NoneRevs: None)
    last_wheel_time,     \* self.last_wheel_time   (NoneInt: None)
    last_crank_revs,     \* self.last_crank_revs
    last_crank_time,     \* self.last_crank_time
    total_distance_m,    \* self.total_distance_m
    total_km,            \* self.total_km
    distance_file,       \* total_km as last written to total_distance.json
    session_data,        \* len(self.session_data)
    data_entry,          \* the last data_entry: characteristic, raw_data, decoded_data
    speed_buffer,        \* self.speed_buffer              (fixed)
    last_smoothed_speed, \* self.last_smoothed_speed       (fixed)
    last_update_time,    \* self.last_update_time          (fixed)
    call,                \* locals of the last _calculate_wheel_metrics / _calculate_cadence calls
    total_distance_km,   \* self.total_distance_km         (app)
    speed_datapoints,    \* self.speed_datapoints          (app)
    current_speed,       \* self.current_speed             (app)
    last_data_time,      \* self.last_data_time            (app)
    stop_updates,        \* self.stop_updates              (app)
    wake,                \* when the update worker's time.sleep(1.0) returns (app)
    datapoints_lock,     \* the thread holding self.datapoints_lock (app)
    pc,                  \* where the handler and the update thread (app) and the
                         \* daemon's service loop (fixed) stand
    notified             \* notifications the transport has delivered

vars == <<kind, now, last_wheel_revs, last_wheel_time, last_crank_revs,
          last_crank_time, total_distance_m, total_km, distance_file,
          session_data, data_entry, speed_buffer, last_smoothed_speed,
          last_update_time, call, total_distance_km, speed_datapoints,
          current_speed, last_data_time, stop_updates, wake, datapoints_lock,
          pc, notified>>

(***************************************************************************)
(* Program constants, in the model's units.                                *)
(***************************************************************************)
wheel_circumference_m == 10525   \* 1.0525 m
buffer_size           == 10
update_interval       == 2       \* 1.0 s
min_speed_threshold   == 100     \* 1.0 km/h
max_acceleration      == 100     \* 2.0 km/h per second, per 0.5 s of clock
max_deceleration      == 150     \* 3.0 km/h per second, per 0.5 s of clock
smoothing_factor      == 15      \* 0.15, in percent
speed_std_threshold   == 3
TimeModulus           == 65536   \* the literal added on event-time rollover
AppSpeedLimit         == 5000    \* 50.0 km/h

\* Python's None for an integer field and for a wheel counter.
NoneInt  == -1
NoneRevs == <<>>

\* The empty dict {}.
EmptyDict == [k \in {} |-> 0]

(***************************************************************************)
(* Bounds of the model (not program constants).                            *)
(***************************************************************************)
MaxPackets == 3      \* notifications handled in one run
MaxTime    == 4      \* the wall clock stops advancing here (2.0 s)
MaxRevStep == 12     \* largest positive revolution delta the inputs produce
MaxFixedPackets  == 4   \* notifications of a SpecFixed run
MaxFixedTime     == 4   \* 1 s clock steps of a SpecFixed run, in half seconds
ConnectDelay     == 40  \* the idle time before a SpecFixed run's samples (20 s)
MaxFilterPackets == 1   \* notifications of a SpecFilter run
MaxFilterTime    == 4   \* the wall clock of a SpecFilter run stops here (2 s)
MaxDecodePackets == 1   \* notifications of a SpecDecode run
MaxFlags         == 16  \* largest low flags byte of an Indoor Bike Data input
MaxSessionPackets == 3  \* notifications of a SpecSession run
MaxThreadPackets == 2   \* notifications of a SpecThreads run
MaxThreadTime    == 4   \* the wall clock of a SpecThreads run stops here (2 s)
MaxServicePackets == 2  \* notifications of a SpecService run
MaxOutlierPackets == 1  \* notifications of a SpecOutlier run
MaxOutlierTime    == 2  \* the wall clock of a SpecOutlier run stops here (1 s)
MaxDecayPackets   == 2  \* notifications of a SpecDecay run
MaxDecayNotifyTime == 2 \* they arrive in the first second
MaxDecayTime      == 16 \* the wall clock of a SpecDecay run stops here (8 s)
MaxStopPackets    == 1  \* notifications of a SpecStop run
MaxStopCallTime   == 2  \* stop_update_thread is called in the first second
MaxStopTime       == 5  \* the wall clock of a SpecStop run stops here (2.5 s)
MaxTimers         == 5  \* Timer objects made in a SpecTimer run
MaxTimerTime      == 9  \* the wall clock of a SpecTimer run stops here (4.5 s)

(***************************************************************************)
(* Little-endian byte strings (struct.unpack / slicing).                   *)
(***************************************************************************)
\* data[a:b] with Python's clamping of a slice to the buffer.
Slice(data, a, b) ==
    LET hi == IF b < Len(data) THEN b ELSE Len(data)
    IN  IF a >= hi THEN <<>> ELSE [i \in 1..(hi - a) |-> data[a + i]]

\* struct.unpack('<H', b)[0], b of exactly 2 bytes.
UnpackH(b) == b[1] + 256 * b[2]

\* struct.unpack('<h', b)[0]
Unpackh(b) == IF UnpackH(b) >= 32768 THEN UnpackH(b) - 65536 ELSE UnpackH(b)

\* struct.unpack('<L', b)[0], b of exactly 4 bytes, as limbs <<hi, lo>>.
UnpackL(b) == <<b[3] + 256 * b[4], b[1] + 256 * b[2]>>

\* The device's encodings of the same.
PackH(v) == <<v % 256, v \div 256>>
PackL(w) == PackH(w[2]) \o PackH(w[1])

\* flags & mask, mask a single bit.
BitSet(flags, mask) == (flags \div mask) % 2 = 1

(***************************************************************************)
(* The reader object.  The methods below are functions from the object     *)
(* (a record of its fields) to the object after the call.                  *)
(***************************************************************************)
Self ==
    [last_wheel_revs |-> last_wheel_revs, last_wheel_time |-> last_wheel_time,
     last_crank_revs |-> last_crank_revs, last_crank_time |-> last_crank_time,
     total_distance_m |-> total_distance_m, total_km |-> total_km,
     distance_file |-> distance_file, session_data |-> session_data,
     speed_buffer |-> speed_buffer, last_smoothed_speed |-> last_smoothed_speed,
     last_update_time |-> last_update_time,
     save_calls |-> 0]   \* calls of _save_total_distance made by this handler run

\* The locals of a handler run in which no calculation was called.
NoCall ==
    [wheel |-> FALSE, has_prev |-> FALSE, rev_diff |-> 0, time_diff |-> 0,
     usable |-> FALSE, current_speed |-> NoneInt, ticked |-> FALSE,
     elapsed |-> 0, prev_smoothed |-> 0, kept |-> <<>>, robust |-> 0,
     limited |-> 0, speed_kmh |-> NoneInt,
     crank |-> FALSE, crank_has_prev |-> FALSE, crank_rev_diff |-> 0,
     crank_time_diff |-> 0, cadence_rpm |-> NoneInt, save_calls |-> 0]

(***************************************************************************)
(* Integer differences.  Python integers are unbounded: wheel_revs -       *)
(* self.last_wheel_revs is the exact difference.  On limbs the difference  *)
(* is exact while the high limbs differ by at most one and keeps its sign  *)
(* (saturated) otherwise; the code only tests it against 0 and multiplies  *)
(* it when positive, and the inputs keep a positive difference within      *)
(* MaxRevStep.                                                             *)
(***************************************************************************)
WheelSub(cur, prev) ==
    LET dhi == cur[1] - prev[1]
        dlo == cur[2] - prev[2]
    IN  IF dhi >= 2 THEN 2 * 65536
        ELSE IF dhi <= -2 THEN -(2 * 65536)
        ELSE dhi * 65536 + dlo

\* speed_ms * 3.6 of lines 375-378: rev_diff * circumference / (time_diff / 1024.0) * 3.6,
\* in 0.01 km/h: rev * circ[1e-4 m] * 1024 * 3.6 * 100 / (1e4 * td) = rev * circ * 4608 / (125 * td).
SpeedKmh(rev_diff, time_diff) ==
    (rev_diff * wheel_circumference_m * 4608) \div (time_diff * 125)

\* rev_diff / time_minutes of lines 400-402, in 0.01 RPM: rev * 1024 * 60 * 100 / td.
CadenceRpm(rev_diff, time_diff) ==
    (rev_diff * 6144000) \div time_diff

\* A slip: the rollover correction left out.
TimeDiffNoRollover(t, last) == t - last

\* time_diff = t - last; if time_diff < 0: time_diff += 65536
TimeDiff(t, last) ==
    IF t - last < 0 THEN t - last + TimeModulus ELSE t - last

\* A slip: a failed write undoes the in-memory total.
SaveTotalDistanceRollback(s, save_ok) ==
    IF save_ok
    THEN [s EXCEPT !.distance_file = s.total_km, !.save_calls = s.save_calls + 1]
    ELSE [s EXCEPT !.total_km = s.distance_file, !.save_calls = s.save_calls + 1]

\* self._save_total_distance(): the write may raise; the exception is caught.
SaveTotalDistance(s, save_ok) ==
    IF save_ok
    THEN [s EXCEPT !.distance_file = s.total_km, !.save_calls = s.save_calls + 1]
    ELSE [s EXCEPT !.save_calls = s.save_calls + 1]

(***************************************************************************)
(* iConsoleDataReader._calculate_wheel_metrics (src/iconsole_reader.py).   *)
(***************************************************************************)
\* A slip: the distance block taken for every non-zero delta.
BaseDistanceAnyDelta(total, has_revs, rev_diff) ==
    IF has_revs /\ rev_diff # 0
    THEN total + rev_diff * wheel_circumference_m
    ELSE total

\* Lines 356-361: the distance update.
BaseDistance(total, has_revs, rev_diff) ==
    IF has_revs /\ rev_diff > 0
    THEN total + rev_diff * wheel_circumference_m
    ELSE total

BaseWheelMetrics(s, wheel_revs, wheel_time) ==
    LET has_revs == s.last_wheel_revs # NoneRevs
        rev_diff == IF has_revs THEN WheelSub(wheel_revs, s.last_wheel_revs) ELSE 0
        dist     == BaseDistance(s.total_distance_m, has_revs, rev_diff)
        has_prev == has_revs /\ s.last_wheel_time # NoneInt
        time_diff == IF has_prev THEN TimeDiff(wheel_time, s.last_wheel_time) ELSE 0
        usable   == has_prev /\ time_diff > 0 /\ rev_diff > 0
        speed    == IF usable THEN SpeedKmh(rev_diff, time_diff) ELSE NoneInt
    IN  [s |-> [s EXCEPT !.total_distance_m = dist,
                         !.last_wheel_revs = wheel_revs,
                         !.last_wheel_time = wheel_time],
         speed_kmh |-> speed,
         distance_km |-> dist,
         c |-> [NoCall EXCEPT !.wheel = TRUE, !.has_prev = has_prev,
                              !.rev_diff = rev_diff, !.time_diff = time_diff,
                              !.usable = usable, !.current_speed = speed,
                              !.speed_kmh = speed]]

(***************************************************************************)
(* iConsoleDataReader._calculate_cadence.                                  *)
(***************************************************************************)
\* A slip: the crank pair stored only when a cadence was computed.
CalculateCadenceStoreUsable(s, crank_revs, crank_time) ==
    LET has_prev == s.last_crank_revs # NoneInt /\ s.last_crank_time # NoneInt
        rev_diff == IF has_prev THEN crank_revs - s.last_crank_revs ELSE 0
        time_diff == IF has_prev THEN TimeDiff(crank_time, s.last_crank_time) ELSE 0
        cadence  == IF has_prev /\ time_diff > 0 /\ rev_diff > 0
                    THEN CadenceRpm(rev_diff, time_diff) ELSE NoneInt
    IN  [s |-> IF has_prev /\ cadence = NoneInt THEN s
               ELSE [s EXCEPT !.last_crank_revs = crank_revs,
                              !.last_crank_time = crank_time],
         cadence_rpm |-> cadence,
         has_prev |-> has_prev, rev_diff |-> rev_diff, time_diff |-> time_diff]

CalculateCadence(s, crank_revs, crank_time) ==
    LET has_prev == s.last_crank_revs # NoneInt /\ s.last_crank_time # NoneInt
        rev_diff == IF has_prev THEN crank_revs - s.last_crank_revs ELSE 0
        time_diff == IF has_prev THEN TimeDiff(crank_time, s.last_crank_time) ELSE 0
        cadence  == IF has_prev /\ time_diff > 0 /\ rev_diff > 0
                    THEN CadenceRpm(rev_diff, time_diff) ELSE NoneInt
    IN  [s |-> [s EXCEPT !.last_crank_revs = crank_revs,
                         !.last_crank_time = crank_time],
         cadence_rpm |-> cadence,
         has_prev |-> has_prev, rev_diff |-> rev_diff, time_diff |-> time_diff]

(***************************************************************************)
(* Exact arithmetic for the statistics module.  statistics.mean and        *)
(* statistics.stdev work on exact fractions, and the squares of speeds do  *)
(* not fit a model integer, so naturals are held as little-endian          *)
(* sequences of base-10000 limbs.                                          *)
(***************************************************************************)
RECURSIVE ToBig(_)
ToBig(n) == IF n = 0 THEN <<>> ELSE <<n % 10000>> \o ToBig(n \div 10000)

Limb(a) == IF a = <<>> THEN 0 ELSE Head(a)
Rest(a) == IF a = <<>> THEN <<>> ELSE Tail(a)

RECURSIVE BigAddC(_, _, _)
BigAddC(a, b, carry) ==
    IF a = <<>> /\ b = <<>> THEN ToBig(carry)
    ELSE LET d == Limb(a) + Limb(b) + carry
         IN  <<d % 10000>> \o BigAddC(Rest(a), Rest(b), d \div 10000)

BigAdd(a, b) == BigAddC(a, b, 0)

\* a * k for an integer 0 <= k < 10000.
RECURSIVE BigScaleC(_, _, _)
BigScaleC(a, k, carry) ==
    IF a = <<>> THEN ToBig(carry)
    ELSE LET d == Head(a) * k + carry
         IN  <<d % 10000>> \o BigScaleC(Tail(a), k, d \div 10000)

RECURSIVE BigMul(_, _)
BigMul(a, b) ==
    IF b = <<>> THEN <<>>
    ELSE BigAdd(BigScaleC(a, Head(b), 0), <<0>> \o BigMul(a, Tail(b)))

\* -1, 0 or 1 as a < b, a = b, a > b.
RECURSIVE BigCmp(_, _)
BigCmp(a, b) ==
    IF a = <<>> /\ b = <<>> THEN 0
    ELSE LET high == BigCmp(Rest(a), Rest(b))
         IN  IF high # 0 THEN high
             ELSE IF Limb(a) < Limb(b) THEN -1
             ELSE IF Limb(a) > Limb(b) THEN 1 ELSE 0

BigSquare(n) == BigMul(ToBig(n), ToBig(n))

(***************************************************************************)
(* Sequences of speeds.                                                    *)
(***************************************************************************)
RECURSIVE SeqSum(_)
SeqSum(q) == IF q = <<>> THEN 0 ELSE Head(q) + SeqSum(Tail(q))

RECURSIVE SumSquares(_)
SumSquares(q) ==
    IF q = <<>> THEN <<>> ELSE BigAdd(BigSquare(Head(q)), SumSquares(Tail(q)))

Abs(x) == IF x < 0 THEN -x ELSE x

\* sorted(q)
RECURSIVE Insert(_, _)
Insert(x, q) ==
    IF q = <<>> THEN <<x>>
    ELSE IF x <= Head(q) THEN <<x>> \o q
    ELSE <<Head(q)>> \o Insert(x, Tail(q))

RECURSIVE Sorted(_)
Sorted(q) == IF q = <<>> THEN <<>> ELSE Insert(Head(q), Sorted(Tail(q)))

\* statistics.mean(q)
Mean(q) == SeqSum(q) \div Len(q)

\* statistics.median(q): the middle of the sorted data, the mean of the two
\* middle values for an even count.
Median(q) ==
    LET s == Sorted(q)
        n == Len(q)
    IN  IF n % 2 = 1 THEN s[(n + 1) \div 2]
        ELSE (s[n \div 2] + s[n \div 2 + 1]) \div 2

(***************************************************************************)
(* abs(speed - mean_speed) <= self.speed_std_threshold * std_speed, with   *)
(* mean = S/n and stdev^2 = (SS - S^2/n) / (n - 1) for S the sum and SS    *)
(* the sum of squares of the n buffer entries.  Both sides are             *)
(* non-negative, so the test is that of their squares, and multiplied out  *)
(* by n^2 (n - 1) it is                                                    *)
(*   (n x - S)^2 (n - 1) + t^2 n S^2  <=  t^2 n^2 SS.                       *)
(***************************************************************************)
\* A slip: a threshold of 2 standard deviations.
WithinTwoStd(speed, buffer) ==
    LET n  == Len(buffer)
        S  == SeqSum(buffer)
        lhs == BigAdd(BigScaleC(BigSquare(Abs(n * speed - S)), n - 1, 0),
                      BigScaleC(BigSquare(S), 4 * n, 0))
        rhs == BigScaleC(SumSquares(buffer), 4 * n * n, 0)
    IN  BigCmp(lhs, rhs) <= 0

WithinStd(speed, buffer) ==
    LET n  == Len(buffer)
        S  == SeqSum(buffer)
        t2 == speed_std_threshold * speed_std_threshold
        lhs == BigAdd(BigScaleC(BigSquare(Abs(n * speed - S)), n - 1, 0),
                      BigScaleC(BigSquare(S), t2 * n, 0))
        rhs == BigScaleC(SumSquares(buffer), t2 * n * n, 0)
    IN  BigCmp(lhs, rhs) <= 0

\* Stage 2: [speed for speed in q if within 3 std of the buffer's mean].
RECURSIVE KeepWithinStd(_, _)
KeepWithinStd(q, buffer) ==
    IF q = <<>> THEN <<>>
    ELSE (IF WithinStd(Head(q), buffer) THEN <<Head(q)>> ELSE <<>>)
         \o KeepWithinStd(Tail(q), buffer)

\* Stage 2: filtered_buffer.
FilteredBuffer(buffer) == KeepWithinStd(buffer, buffer)

\* Stages 2 and 3: median_speed before the rate limiter, filtered being
\* filtered_buffer when the buffer holds 3 readings or more.
RobustEstimate(buffer, filtered, inst_speed) ==
    IF Len(buffer) >= 3
    THEN IF filtered # <<>> THEN Median(filtered) ELSE Mean(buffer)
    ELSE IF inst_speed # NoneInt THEN inst_speed ELSE 0

(***************************************************************************)
(* FixedConsoleDataReader._calculate_wheel_metrics (src/helth_daemon.py).  *)
(***************************************************************************)
\* A slip: the limiter applied to decelerations only.
RateLimitedDown(median_speed, last_smoothed, time_diff) ==
    LET speed_diff == median_speed - last_smoothed
    IN  IF speed_diff < 0 /\ -speed_diff > max_acceleration * time_diff
        THEN last_smoothed - max_deceleration * time_diff
        ELSE median_speed

\* A slip: the limiter left out.
RateLimitedOff(median_speed, last_smoothed, time_diff) == median_speed

\* A slip: every decrease replaced by the full deceleration allowance.
RateLimitedNoThreshold(median_speed, last_smoothed, time_diff) ==
    LET max_change == max_acceleration * time_diff
        speed_diff == median_speed - last_smoothed
    IN  IF speed_diff > max_change THEN last_smoothed + max_change
        ELSE IF speed_diff < 0 THEN last_smoothed - max_deceleration * time_diff
        ELSE median_speed

\* Stage 4: median_speed after the rate limiter.
RateLimited(median_speed, last_smoothed, time_diff) ==
    LET max_change == max_acceleration * time_diff
        speed_diff == median_speed - last_smoothed
    IN  IF Abs(speed_diff) > max_change
        THEN IF speed_diff > 0
             THEN last_smoothed + max_change
             ELSE last_smoothed - max_deceleration * time_diff
        ELSE median_speed

\* A slip: the weights of the two terms exchanged.
SmoothedSwapped(median_speed, last_smoothed) ==
    ((100 - smoothing_factor) * median_speed + smoothing_factor * last_smoothed) \div 100

\* Stage 5: smoothing_factor * median + (1 - smoothing_factor) * last.
Smoothed(median_speed, last_smoothed) ==
    (smoothing_factor * median_speed + (100 - smoothing_factor) * last_smoothed) \div 100

\* A slip: the threshold test left out.
FloorSnapNone(smoothed_speed) == smoothed_speed

\* Stage 6, and the value returned between ticks.
FloorSnap(smoothed_speed) ==
    IF smoothed_speed >= min_speed_threshold THEN smoothed_speed ELSE 0

\* A slip: the newest reading dropped from a full buffer.
BufferAppendDropNewest(buffer, speed) ==
    IF Len(buffer) >= buffer_size THEN buffer ELSE Append(buffer, speed)

\* Stage 1: append, and pop(0) when longer than buffer_size.
BufferAppend(buffer, speed) ==
    LET b == Append(buffer, speed)
    IN  IF Len(b) > buffer_size THEN Tail(b) ELSE b

\* A slip: a reading of 0 appended when the packet has no sample.
TickBufferZero(buffer, inst) ==
    BufferAppend(buffer, IF inst # NoneInt THEN inst ELSE 0)

\* Lines 96-100: the buffer after stage 1 of a tick.
TickBuffer(buffer, inst) ==
    IF inst # NoneInt THEN BufferAppend(buffer, inst) ELSE buffer

\* A slip: the filter run on every call.
IsTickAlways(current_time, last_update) == current_time >= last_update

\* Line 95: enough time has passed since the last update.
IsTick(current_time, last_update) == current_time - last_update >= update_interval

\* A slip: total_km raised only when the write succeeded.
FixedDistanceSavedOnly(s, rev_diff, save_ok) ==
    LET dist == s.total_distance_m + rev_diff * wheel_circumference_m
        s1   == [s EXCEPT !.total_distance_m = dist]
    IN  IF dist > s.total_km /\ save_ok
        THEN SaveTotalDistance([s1 EXCEPT !.total_km = dist], save_ok)
        ELSE s1

\* Lines 60-72: the distance update; total_km follows and is saved at once.
FixedDistance(s, rev_diff, save_ok) ==
    LET dist == s.total_distance_m + rev_diff * wheel_circumference_m
        s1   == [s EXCEPT !.total_distance_m = dist]
    IN  IF dist > s.total_km
        THEN SaveTotalDistance([s1 EXCEPT !.total_km = dist], save_ok)
        ELSE s1

FixedWheelMetrics(s, wheel_revs, wheel_time, current_time, save_ok) ==
    LET has_revs == s.last_wheel_revs # NoneRevs
        rev_diff == IF has_revs THEN WheelSub(wheel_revs, s.last_wheel_revs) ELSE 0
        s1       == IF has_revs /\ rev_diff > 0
                    THEN FixedDistance(s, rev_diff, save_ok) ELSE s
        has_prev == has_revs /\ s.last_wheel_time # NoneInt
        time_diff == IF has_prev THEN TimeDiff(wheel_time, s.last_wheel_time) ELSE 0
        usable   == has_prev /\ time_diff > 0 /\ rev_diff > 0
        inst     == IF usable THEN SpeedKmh(rev_diff, time_diff) ELSE NoneInt
        elapsed  == current_time - s.last_update_time
        tick     == IsTick(current_time, s.last_update_time)
        buffer   == IF tick THEN TickBuffer(s.speed_buffer, inst) ELSE s.speed_buffer
        filtered == IF tick /\ Len(buffer) >= 3 THEN FilteredBuffer(buffer) ELSE <<>>
        robust   == RobustEstimate(buffer, filtered, inst)
        limited  == RateLimited(robust, s.last_smoothed_speed, elapsed)
        smoothed == Smoothed(limited, s.last_smoothed_speed)
        speed    == IF tick THEN FloorSnap(smoothed)
                    ELSE FloorSnap(s.last_smoothed_speed)
        s2       == IF tick
                    THEN [s1 EXCEPT !.speed_buffer = buffer,
                                    !.last_smoothed_speed = smoothed,
                                    !.last_update_time = current_time]
                    ELSE s1
    IN  [s |-> [s2 EXCEPT !.last_wheel_revs = wheel_revs,
                          !.last_wheel_time = wheel_time],
         speed_kmh |-> speed,
         distance_km |-> s1.total_distance_m,
         c |-> [NoCall EXCEPT !.wheel = TRUE, !.has_prev = has_prev,
                              !.rev_diff = rev_diff, !.time_diff = time_diff,
                              !.usable = usable, !.current_speed = inst,
                              !.ticked = tick,
                              !.elapsed = IF tick THEN elapsed ELSE 0,
                              !.prev_smoothed = s.last_smoothed_speed,
                              !.kept = filtered,
                              !.robust = IF tick THEN robust ELSE 0,
                              !.limited = IF tick THEN limited ELSE 0,
                              !.speed_kmh = speed]]

\* self._calculate_wheel_metrics, dispatched on the class of self.
CalculateWheelMetrics(k, s, wheel_revs, wheel_time, current_time, save_ok) ==
    IF k = "fixed"
    THEN FixedWheelMetrics(s, wheel_revs, wheel_time, current_time, save_ok)
    ELSE BaseWheelMetrics(s, wheel_revs, wheel_time)

(***************************************************************************)
(* The decoders of iConsoleDataReader.  A decoded dict is a function from  *)
(* its keys; speed_kmh = raw / 100 km/h is raw in 0.01 km/h, cadence_rpm   *)
(* = raw / 2 is held in half RPM.                                          *)
(***************************************************************************)
\* A slip: the offset not advanced past a field that was read.
IndoorFieldSameOffset(d, flags, mask, key, signed, data) ==
    LET decoded == d[1]
        offset  == d[2]
    IN  IF BitSet(flags, mask) /\ offset + 2 <= Len(data)
        THEN <<decoded @@ (key :> (IF signed
                                   THEN Unpackh(Slice(data, offset, offset + 2))
                                   ELSE UnpackH(Slice(data, offset, offset + 2)))),
               offset>>
        ELSE d

\* One optional 2-byte field of _decode_indoor_bike_data: d is the pair
\* <<decoded, offset>>; the field is read if its flag is set and it fits.
IndoorField(d, flags, mask, key, signed, data) ==
    LET decoded == d[1]
        offset  == d[2]
    IN  IF BitSet(flags, mask) /\ offset + 2 <= Len(data)
        THEN <<decoded @@ (key :> (IF signed
                                   THEN Unpackh(Slice(data, offset, offset + 2))
                                   ELSE UnpackH(Slice(data, offset, offset + 2)))),
               offset + 2>>
        ELSE d

decode_indoor_bike_data(data) ==
    IF Len(data) < 2 THEN EmptyDict
    ELSE LET flags == UnpackH(Slice(data, 0, 2))
             d0 == <<("flags" :> flags), 2>>
             d1 == IndoorField(d0, flags, 1, "speed_kmh", FALSE, data)
             d2 == IndoorField(d1, flags, 2, "cadence_rpm", FALSE, data)
             d3 == IndoorField(d2, flags, 4, "distance_m", FALSE, data)
             d4 == IndoorField(d3, flags, 8, "power_watts", TRUE, data)
         IN  d4[1]

decode_power_data(data) ==
    IF Len(data) < 4 THEN EmptyDict
    ELSE ("flags" :> UnpackH(Slice(data, 0, 2)))
         @@ ("instantaneous_power_watts" :> Unpackh(Slice(data, 2, 4)))

\* uint16_<i//2> for i in range(0, len(data) - 1, 2), and byte_<i>.
decode_generic_data(data) ==
    (IF Len(data) >= 2
     THEN ("uint16" :> [j \in 1..(Len(data) \div 2) |->
                           UnpackH(Slice(data, 2 * (j - 1), 2 * j))])
     ELSE EmptyDict)
    @@ (IF Len(data) >= 1 THEN ("byte" :> data) ELSE EmptyDict)

\* An optional key of a dict.
Opt(present, key, value) == IF present THEN (key :> value) ELSE EmptyDict

\* _decode_csc_data: the decoded dict, the object after the calls, their locals.
decode_csc_data(k, s, data, current_time, save_ok) ==
    IF Len(data) < 1 THEN [decoded |-> EmptyDict, s |-> s, c |-> NoCall]
    ELSE LET flags == data[1]
             wheel == BitSet(flags, 1) /\ 1 + 6 <= Len(data)
             wheel_revs == UnpackL(Slice(data, 1, 5))
             wheel_time == UnpackH(Slice(data, 5, 7))
             w == CalculateWheelMetrics(k, s, wheel_revs, wheel_time,
                                        current_time, save_ok)
             s1 == IF wheel THEN w.s ELSE s
             c1 == IF wheel THEN w.c ELSE NoCall
             offset == IF wheel THEN 7 ELSE 1
             crank == BitSet(flags, 2) /\ offset + 4 <= Len(data)
             crank_revs == UnpackH(Slice(data, offset, offset + 2))
             crank_time == UnpackH(Slice(data, offset + 2, offset + 4))
             cad == CalculateCadence(s1, crank_revs, crank_time)
         IN  [decoded |->
                 ("flags" :> flags)
                 @@ Opt(wheel, "wheel_revolutions", wheel_revs)
                 @@ Opt(wheel, "wheel_event_time", wheel_time)
                 @@ Opt(wheel /\ w.speed_kmh # NoneInt, "calculated_speed_kmh", w.speed_kmh)
                 @@ Opt(wheel, "total_distance_km", w.distance_km)
                 @@ Opt(crank, "crank_revolutions", crank_revs)
                 @@ Opt(crank, "crank_event_time", crank_time)
                 @@ Opt(crank /\ cad.cadence_rpm # NoneInt, "calculated_cadence_rpm",
                        cad.cadence_rpm),
              s |-> IF crank THEN cad.s ELSE s1,
              c |-> IF crank
                    THEN [c1 EXCEPT !.crank = TRUE, !.crank_has_prev = cad.has_prev,
                                    !.crank_rev_diff = cad.rev_diff,
                                    !.crank_time_diff = cad.time_diff,
                                    !.cadence_rpm = cad.cadence_rpm]
                    ELSE c1]

\* The characteristic names the readers subscribe with.
INDOOR_BIKE == "Indoor Bike Data"
CSC         == "Cycling Speed & Cadence"
POWER       == "Cycling Power"
CUSTOM      == "Custom-0000fff1"

\* _decode_data: the dispatch on the characteristic's name.  No decoder raises
\* (every unpack is of a slice of the right size), so the except branch is dead.
decode_data(k, s, data, char_name, current_time, save_ok) ==
    IF char_name = INDOOR_BIKE
    THEN [decoded |-> decode_indoor_bike_data(data), s |-> s, c |-> NoCall]
    ELSE IF char_name = CSC
    THEN decode_csc_data(k, s, data, current_time, save_ok)
    ELSE IF char_name = POWER
    THEN [decoded |-> decode_power_data(data), s |-> s, c |-> NoCall]
    ELSE [decoded |-> decode_generic_data(data), s |-> s, c |-> NoCall]

\* A slip: an entry with nothing decoded is not logged.
log_data_to_json_drop_empty(s, decoded, session_ok, save_ok) ==
    LET s1 == [s EXCEPT !.session_data = s.session_data + 1]
    IN  IF decoded = EmptyDict THEN s
        ELSE IF ~session_ok THEN s1
        ELSE IF "total_distance_km" \in DOMAIN decoded
                /\ decoded["total_distance_km"] > s1.total_km
        THEN SaveTotalDistance(
                 [s1 EXCEPT !.total_km = decoded["total_distance_km"]], save_ok)
        ELSE s1

\* A slip: the checkpoint written for every packet that reports a distance.
log_data_to_json_every_packet(s, decoded, session_ok, save_ok) ==
    LET s1 == [s EXCEPT !.session_data = s.session_data + 1]
    IN  IF ~session_ok THEN s1
        ELSE IF "total_distance_km" \in DOMAIN decoded
                /\ decoded["total_distance_km"] >= s1.total_km
        THEN SaveTotalDistance(
                 [s1 EXCEPT !.total_km = decoded["total_distance_km"]], save_ok)
        ELSE s1

\* _log_data_to_json: the append, the session-file write (which may raise and
\* end the method in its except branch), then the total_km checkpoint.
log_data_to_json(s, decoded, session_ok, save_ok) ==
    LET s1 == [s EXCEPT !.session_data = s.session_data + 1]
    IN  IF ~session_ok THEN s1
        ELSE IF "total_distance_km" \in DOMAIN decoded
                /\ decoded["total_distance_km"] > s1.total_km
        THEN SaveTotalDistance(
                 [s1 EXCEPT !.total_km = decoded["total_distance_km"]], save_ok)
        ELSE s1

(***************************************************************************)
(* The python_app reader (src/python_app/iconsole_reader.py).              *)
(***************************************************************************)
\* The names _subscribe_to_characteristics gives its handlers:
\* Service-<service uuid[:8]>-<characteristic uuid[:8]>.
APP_INDOOR == "Service-00001826-00002ad2"
APP_CSC    == "Service-00001816-00002a5b"
APP_OTHER  == "Service-0000fff0-0000fff1"

\* _extract_speed: the speed returned (NoneInt: None) and the counter state
\* after the call.  The wheel circumference is the literal 1.0525 of line 292.
extract_speed(revs, time, data, char_name) ==
    LET keep == [speed |-> NoneInt, revs |-> revs, time |-> time,
                 wheel |-> FALSE, has_prev |-> FALSE, rev_diff |-> 0,
                 time_diff |-> 0]
    IN  IF char_name = APP_INDOOR /\ Len(data) >= 4
        THEN IF BitSet(UnpackH(Slice(data, 0, 2)), 1)
             THEN [keep EXCEPT !.speed = UnpackH(Slice(data, 2, 4))]
             ELSE keep
        ELSE IF char_name = APP_CSC /\ Len(data) >= 7
        THEN IF BitSet(data[1], 1)
             THEN LET wheel_revs == UnpackL(Slice(data, 1, 5))
                      wheel_time == UnpackH(Slice(data, 5, 7))
                      has_prev == revs # NoneRevs /\ time # NoneInt
                      rev_diff == IF has_prev THEN WheelSub(wheel_revs, revs) ELSE 0
                      time_diff == IF has_prev THEN TimeDiff(wheel_time, time) ELSE 0
                  IN  [speed |-> IF has_prev /\ time_diff > 0 /\ rev_diff > 0
                                 THEN SpeedKmh(rev_diff, time_diff) ELSE NoneInt,
                       revs |-> wheel_revs, time |-> wheel_time,
                       wheel |-> TRUE, has_prev |-> has_prev,
                       rev_diff |-> rev_diff, time_diff |-> time_diff]
             ELSE keep
        ELSE IF Len(data) >= 2
        THEN IF UnpackH(Slice(data, 0, 2)) <= 10000
             THEN [keep EXCEPT !.speed = UnpackH(Slice(data, 0, 2))]
             ELSE keep
        ELSE keep

\* current_speed *= 0.67 ** k
RECURSIVE Decay(_, _)
Decay(speed, k) == IF k = 0 THEN speed ELSE Decay((speed * 67) \div 100, k - 1)

\* A slip: the decay left out.
WorkerSpeedHold(datapoints, speed, current_time, data_time) ==
    IF datapoints # <<>>
    THEN SeqSum(datapoints) \div Len(datapoints)
    ELSE speed

\* The locked block of _update_worker: the current_speed it leaves.
WorkerSpeed(datapoints, speed, current_time, data_time) ==
    IF datapoints # <<>>
    THEN SeqSum(datapoints) \div Len(datapoints)
    ELSE IF current_time - data_time > 2
    THEN LET decayed == Decay(speed, (current_time - data_time) \div 2)
         IN  IF decayed < 10 THEN 0 ELSE decayed
    ELSE speed

\* current_speed / 3600.0 km, in 0.0001 m: speed[0.01 km/h] * 1e7 / (100 * 3600).
DistanceIncrement(speed) == (speed * 250) \div 9

(***************************************************************************)
(* The inputs: the notifications the transport delivers.                   *)
(***************************************************************************)
WheelPacket(w, t)       == <<1>> \o PackL(w) \o PackH(t)
CrankPacket(c, t)       == <<2>> \o PackH(c) \o PackH(t)
BothPacket(w, t, c, ct) == <<3>> \o PackL(w) \o PackH(t) \o PackH(c) \o PackH(ct)

\* 4294967290 is <<65535, 65530>>.
WheelCounts == {<<65535, 65530>>, <<0, 5>>, <<0, 15>>}
EventTimes  == {65000, 100}
CrankCounts == {65530, 5}

CSCPackets ==
    {WheelPacket(w, t) : w \in WheelCounts, t \in EventTimes}
    \cup {CrankPacket(c, t) : c \in CrankCounts, t \in {65000, 100}}
    \cup {BothPacket(<<0, 15>>, 100, 5, 100)}

\* The persisted baselines a reader is constructed with: no file, or 8
\* wheel circumferences.
Baselines == {0, 8 * wheel_circumference_m}

\* The counters a CSC notification carries, as _decode_csc_data reads them.
PacketWheel(data) ==
    IF Len(data) >= 7 /\ BitSet(data[1], 1) THEN UnpackL(Slice(data, 1, 5))
    ELSE NoneRevs

PacketCrank(data) ==
    LET offset == IF PacketWheel(data) # NoneRevs THEN 7 ELSE 1
    IN  IF Len(data) >= offset + 4 /\ BitSet(data[1], 2)
        THEN UnpackH(Slice(data, offset, offset + 2)) ELSE NoneInt

\* The notification keeps a positive revolution delta within MaxRevStep
\* (a counter may also stand still, step back or wrap).
RevStepOK(data, revs, crank) ==
    /\ (PacketWheel(data) # NoneRevs /\ revs # NoneRevs)
           => WheelSub(PacketWheel(data), revs) <= MaxRevStep
    /\ (PacketCrank(data) # NoneInt /\ crank # NoneInt)
           => PacketCrank(data) - crank <= MaxRevStep

(***************************************************************************)
(* Init: the reader after construction.                                    *)
(***************************************************************************)
\* Neither thread is inside a call: the handler waits for a notification,
\* the update thread is at the top of its loop.  speed and the two times are
\* the locals a thread carries into its locked block.  running is
\* HelthDaemon.running as start_background_service sets it, link the state
\* of the Bluetooth link, retried whether the loop has come round after a
\* round that ended; display is what the update thread last passed to
\* update_display, join the state of a call of stop_update_thread.  Of the
\* menu bar app of menubar_app.py, menubar is its life cycle, pending the
\* threading.Timer objects started and neither fired nor cancelled, timer
\* the one self.timer refers to (0: no such attribute), created the number
\* of Timer objects made, firing the number of update_loop calls between
\* their update_data and their start_timer, updated the time of the last
\* update_data made by __init__ or update_loop.  The
\* service loop of
\* HelthDaemon is at its top; subscribed are the characteristics whose
\* start_notify returned, failed counts the start_notify calls that raised.
Idle == [handler |-> "idle", speed |-> NoneInt, handler_time |-> 0,
         worker |-> "top", worker_time |-> 0, recent_datapoints |-> <<>>,
         service |-> "start", subscribed |-> {}, failed |-> 0,
         running |-> TRUE, link |-> "none", retried |-> FALSE,
         display |-> <<>>, join |-> "none",
         menubar |-> "new", pending |-> {}, timer |-> 0, created |-> 0,
         firing |-> 0, updated |-> NoneInt]

InitKind(k) ==
    /\ kind = k
    /\ now = 0
    /\ last_wheel_revs = NoneRevs
    /\ last_wheel_time = NoneInt
    /\ last_crank_revs = NoneInt
    /\ last_crank_time = NoneInt
    /\ distance_file \in Baselines
    /\ total_km = IF k = "app" THEN 0 ELSE distance_file
    /\ total_distance_m = IF k = "fixed" THEN distance_file ELSE 0
    /\ total_distance_km = IF k = "app" THEN distance_file ELSE 0
    /\ session_data = 0
    /\ data_entry = [characteristic |-> "", raw_data |-> <<>>, decoded_data |-> EmptyDict]
    /\ speed_buffer = <<>>
    /\ last_smoothed_speed = 0
    /\ last_update_time = 0
    /\ call = NoCall
    /\ speed_datapoints = <<>>
    /\ current_speed = 0
    /\ last_data_time = 0
    /\ stop_updates = FALSE
    /\ wake = 0
    /\ datapoints_lock = "none"
    /\ pc = Idle
    /\ notified = 0

Init == \E k \in {"base", "fixed", "app"} : InitKind(k)

AppVarsUnchanged ==
    UNCHANGED <<total_distance_km, speed_datapoints, current_speed,
                last_data_time, stop_updates, wake, datapoints_lock, pc>>

ReaderVarsUnchanged ==
    UNCHANGED <<total_distance_m, total_km, session_data, data_entry,
                speed_buffer, last_smoothed_speed, last_update_time,
                last_crank_revs, last_crank_time>>

(***************************************************************************)
(* notification_handler of iConsoleDataReader / FixedConsoleDataReader:    *)
(* decode, then log.  session_ok and save_ok are the outcomes of the two   *)
(* file writes (False: the write raises).                                  *)
(***************************************************************************)
notification_handler(char_name, data, session_ok, save_ok) ==
    /\ kind \in {"base", "fixed"}
    /\ char_name = CSC => RevStepOK(data, last_wheel_revs, last_crank_revs)
    /\ \E r \in {decode_data(kind, Self, data, char_name, now, save_ok)} :
       \E s \in {log_data_to_json(r.s, r.decoded, session_ok, save_ok)} :
           /\ last_wheel_revs' = s.last_wheel_revs
           /\ last_wheel_time' = s.last_wheel_time
           /\ last_crank_revs' = s.last_crank_revs
           /\ last_crank_time' = s.last_crank_time
           /\ total_distance_m' = s.total_distance_m
           /\ total_km' = s.total_km
           /\ distance_file' = s.distance_file
           /\ session_data' = s.session_data
           /\ speed_buffer' = s.speed_buffer
           /\ last_smoothed_speed' = s.last_smoothed_speed
           /\ last_update_time' = s.last_update_time
           /\ data_entry' = [characteristic |-> char_name, raw_data |-> data,
                             decoded_data |-> r.decoded]
           /\ call' = [r.c EXCEPT !.save_calls = s.save_calls]
    /\ notified' = notified + 1
    /\ UNCHANGED <<kind, now>>
    /\ AppVarsUnchanged

\* time.time() advances by d.
ClockAdvance(d, limit) ==
    /\ kind \in {"fixed", "app"}
    /\ now + d <= limit
    /\ now' = now + d
    /\ UNCHANGED <<kind, last_wheel_revs, last_wheel_time, distance_file, call,
                   notified>>
    /\ ReaderVarsUnchanged
    /\ AppVarsUnchanged

(***************************************************************************)
(* The python_app reader's handler: _extract_speed, _add_speed_datapoint.  *)
(***************************************************************************)
handler(name, data) ==
    /\ kind = "app"
    /\ pc = Idle /\ datapoints_lock = "none"
    /\ name = APP_CSC => RevStepOK(data, last_wheel_revs, NoneInt)
    /\ \E r \in {extract_speed(last_wheel_revs, last_wheel_time, data, name)} :
       LET accepted == r.speed # NoneInt /\ ~(r.speed > AppSpeedLimit)
       IN  /\ last_wheel_revs' = r.revs
           /\ last_wheel_time' = r.time
           /\ speed_datapoints' = IF accepted THEN Append(speed_datapoints, r.speed)
                                  ELSE speed_datapoints
           /\ last_data_time' = IF accepted THEN now ELSE last_data_time
           /\ call' = [NoCall EXCEPT !.wheel = r.wheel, !.has_prev = r.has_prev,
                                     !.rev_diff = r.rev_diff,
                                     !.time_diff = r.time_diff,
                                     !.current_speed = r.speed]
    /\ data_entry' = [characteristic |-> name, raw_data |-> data,
                      decoded_data |-> EmptyDict]
    /\ notified' = notified + 1
    /\ UNCHANGED <<kind, now, last_crank_revs, last_crank_time, total_distance_m,
                   total_km, distance_file, session_data, speed_buffer,
                   last_smoothed_speed, last_update_time, total_distance_km,
                   current_speed, stop_updates, wake, datapoints_lock, pc>>

\* One iteration of _update_worker's loop, run when its sleep has returned.
update_worker(save_ok) ==
    /\ kind = "app"
    /\ pc = Idle /\ datapoints_lock = "none"
    /\ ~stop_updates
    /\ now >= wake
    /\ \E speed \in {WorkerSpeed(speed_datapoints, current_speed, now, last_data_time)} :
       LET total == IF speed > 0 THEN total_distance_km + DistanceIncrement(speed)
                    ELSE total_distance_km
       IN  /\ current_speed' = speed
           /\ speed_datapoints' = <<>>
           /\ total_distance_km' = total
           /\ distance_file' = IF speed > 0 /\ save_ok THEN total ELSE distance_file
    /\ wake' = now + 2
    /\ UNCHANGED <<kind, now, last_wheel_revs, last_wheel_time, last_data_time,
                   stop_updates, call, datapoints_lock, pc, notified>>
    /\ ReaderVarsUnchanged

\* The notifications of the app reader's run.
AppPackets ==
    {<<APP_CSC, WheelPacket(w, t)>> : w \in {<<65535, 65530>>, <<0, 5>>}, t \in {65000, 100}}
    \cup {<<APP_INDOOR, <<1, 0>> \o PackH(1500)>>,
          <<APP_INDOOR, <<1, 0>> \o PackH(6000)>>,
          <<APP_OTHER, PackH(30)>>}

(***************************************************************************)
(* Spec: the three readers, each from its construction, on CSC             *)
(* notifications whose counters stand still, advance, step back and wrap.  *)
(***************************************************************************)
\* Notifications of the other characteristics.
OtherPackets ==
    {<<INDOOR_BIKE, <<1, 0>> \o PackH(1500)>>,
     <<POWER, <<0, 0, 120, 0>>>>,
     <<CUSTOM, <<30, 0>>>>}

Notify ==
    /\ notified < MaxPackets
    /\ \/ \E data \in CSCPackets, session_ok \in BOOLEAN, save_ok \in BOOLEAN :
              notification_handler(CSC, data, session_ok, save_ok)
       \/ \E p \in OtherPackets : notification_handler(p[1], p[2], TRUE, TRUE)

AppNotify == notified < MaxPackets /\ \E p \in AppPackets : handler(p[1], p[2])

AppUpdate == \E save_ok \in BOOLEAN : update_worker(save_ok)

Tick == ClockAdvance(1, MaxTime)

Next == Notify \/ Tick \/ AppNotify \/ AppUpdate

Spec == Init /\ [][Next]_vars

(***************************************************************************)
(* SpecFixed: FixedConsoleDataReader from its construction, on a device    *)
(* that reports 1000 -> 1010 revolutions over event time 0 -> 1024 and     *)
(* then one revolution every 12933/1024 s (0.3 km/h), in any order and     *)
(* with repeats, while the wall clock moves by 1 s or, once, by 20 s.      *)
(***************************************************************************)
FixedSamples == {<<1000, 0>>, <<1010, 1024>>, <<1011, 13957>>, <<1012, 26890>>}

FixedNotify ==
    /\ notified < MaxFixedPackets
    /\ \E p \in FixedSamples, save_ok \in BOOLEAN :
           notification_handler(CSC, WheelPacket(<<0, p[1]>>, p[2]), TRUE, save_ok)

\* The clock moves 1 s at a time, MaxFixedTime at most; the reader may first
\* sit idle for ConnectDelay.
FixedClock ==
    \/ now = 0 /\ ClockAdvance(ConnectDelay, ConnectDelay)
    \/ ClockAdvance(2, IF now >= ConnectDelay THEN ConnectDelay + MaxFixedTime
                       ELSE MaxFixedTime)

NextFixed == FixedNotify \/ FixedClock

SpecFixed == InitKind("fixed") /\ [][NextFixed]_vars

(***************************************************************************)
(* SpecFilter: the filter stages of FixedConsoleDataReader on any history: *)
(* the reader has seen a wheel sample (1000 revolutions at event time 0),  *)
(* holds a speed history and a smoothed speed drawn from FilterHistories   *)
(* and FilterSpeeds, and handles samples of 200 km/h, 10 km/h and 0.3 km/h *)
(* and a repeat.                                                           *)
(***************************************************************************)
FilterHistories ==
    {<<>>,
     <<3000, 3000, 3000>>,
     <<1000, 1000, 1100, 900, 1000>>,
     <<1000, 1000, 1100, 900, 1000, 20000>>,
     <<1000, 1000, 1000, 1000, 1000, 1000, 1000, 1000, 1000, 20000>>}

FilterSpeeds == {0, 250, 1000, 3000}

FilterSamples == {<<1000, 0>>, <<1010, 194>>, <<1005, 1939>>, <<1001, 12933>>}

InitFilter ==
    /\ kind = "fixed"
    /\ now = 0
    /\ last_wheel_revs = <<0, 1000>>
    /\ last_wheel_time = 0
    /\ last_crank_revs = NoneInt
    /\ last_crank_time = NoneInt
    /\ distance_file = 0
    /\ total_km = 0
    /\ total_distance_m = 0
    /\ total_distance_km = 0
    /\ session_data = 1
    /\ data_entry = [characteristic |-> "", raw_data |-> <<>>, decoded_data |-> EmptyDict]
    /\ speed_buffer \in FilterHistories
    /\ last_smoothed_speed \in FilterSpeeds
    /\ speed_buffer = <<>> => last_smoothed_speed = 0
    /\ last_update_time = 0
    /\ call = NoCall
    /\ speed_datapoints = <<>>
    /\ current_speed = 0
    /\ last_data_time = 0
    /\ stop_updates = FALSE
    /\ wake = 0
    /\ datapoints_lock = "none"
    /\ pc = Idle
    /\ notified = 0

FilterNotify ==
    /\ notified < MaxFilterPackets
    /\ \E p \in FilterSamples :
           notification_handler(CSC, WheelPacket(<<0, p[1]>>, p[2]), TRUE, TRUE)

FilterClock == ClockAdvance(1, MaxFilterTime)

NextFilter == FilterNotify \/ FilterClock

SpecFilter == InitFilter /\ [][NextFilter]_vars

(***************************************************************************)
(* SpecOutlier: the outlier stage on every history of 3 to buffer_size     *)
(* readings of 0, 10 and 200 km/h (the order of a history does not enter   *)
(* the test), before a packet that repeats the last one or brings a        *)
(* sample of 200, 10 or 0.3 km/h.                                          *)
(***************************************************************************)
Repeat(v, n) == [i \in 1..n |-> v]

\* The counts of the three readings in a history.
OutlierCounts ==
    {n \in (0..buffer_size) \X (0..buffer_size) \X (0..buffer_size) :
         3 <= n[1] + n[2] + n[3] /\ n[1] + n[2] + n[3] <= buffer_size}

OutlierHistories ==
    {Repeat(0, n[1]) \o Repeat(1000, n[2]) \o Repeat(20000, n[3]) :
         n \in OutlierCounts}

InitOutlier ==
    /\ kind = "fixed"
    /\ now = 0
    /\ last_wheel_revs = <<0, 1000>>
    /\ last_wheel_time = 0
    /\ last_crank_revs = NoneInt
    /\ last_crank_time = NoneInt
    /\ distance_file = 0
    /\ total_km = 0
    /\ total_distance_m = 0
    /\ total_distance_km = 0
    /\ session_data = 1
    /\ data_entry = [characteristic |-> "", raw_data |-> <<>>, decoded_data |-> EmptyDict]
    /\ speed_buffer \in OutlierHistories
    /\ last_smoothed_speed = 1000
    /\ last_update_time = 0
    /\ call = NoCall
    /\ speed_datapoints = <<>>
    /\ current_speed = 0
    /\ last_data_time = 0
    /\ stop_updates = FALSE
    /\ wake = 0
    /\ datapoints_lock = "none"
    /\ pc = Idle
    /\ notified = 0

OutlierNotify ==
    /\ notified < MaxOutlierPackets
    /\ \E p \in FilterSamples :
           notification_handler(CSC, WheelPacket(<<0, p[1]>>, p[2]), TRUE, TRUE)

OutlierClock == ClockAdvance(2, MaxOutlierTime)

NextOutlier == OutlierNotify \/ OutlierClock

SpecOutlier == InitOutlier /\ [][NextOutlier]_vars

(***************************************************************************)
(* SpecDecode: the base reader's decoders on every flags value and every   *)
(* truncation of a full notification.                                      *)
(***************************************************************************)
Truncate(data, n) == SubSeq(data, 1, n)

\* flags, then speed 0x010B, cadence 0x020C, distance 0x030D, power 0xFF0E.
IndoorPayload == <<11, 1, 12, 2, 13, 3, 14, 255>>

\* wheel count 11 at event time 21, crank count 13 at event time 23.
CSCPayload == <<11, 0, 0, 0, 21, 0, 13, 0, 23, 0>>

DecodeInputs ==
    {<<INDOOR_BIKE, Truncate(<<f, h>> \o IndoorPayload, n)>> :
         f \in 0..MaxFlags, h \in {0, 1}, n \in 0..10}
    \cup {<<CSC, Truncate(<<f>> \o CSCPayload, n)>> : f \in 0..3, n \in 0..11}
    \cup {<<POWER, Truncate(<<0, 0>> \o IndoorPayload, n)>> : n \in {3, 4, 6}}
    \cup {<<CUSTOM, Truncate(IndoorPayload, n)>> : n \in 0..3}

DecodeNotify ==
    /\ notified < MaxDecodePackets
    /\ \E p \in DecodeInputs : notification_handler(p[1], p[2], TRUE, TRUE)

NextDecode == DecodeNotify

SpecDecode == InitKind("base") /\ [][NextDecode]_vars

(***************************************************************************)
(* SpecSession: a base or fixed reader from its construction, on wheel     *)
(* notifications 1000 -> 1010 -> 1011 revolutions mixed with notifications *)
(* too short for their mandatory prefix, either file write failing.        *)
(***************************************************************************)
SessionInputs ==
    {<<CSC, WheelPacket(<<0, p[1]>>, p[2])>> :
         p \in {<<1000, 0>>, <<1010, 1024>>, <<1011, 13957>>}}
    \cup {<<CSC, <<>>>>, <<INDOOR_BIKE, <<>>>>, <<INDOOR_BIKE, <<9>>>>,
          <<POWER, <<0, 0, 11>>>>, <<CUSTOM, <<>>>>}

InitSession == \E k \in {"base", "fixed"} : InitKind(k)

SessionNotify ==
    /\ notified < MaxSessionPackets
    /\ \E p \in SessionInputs, session_ok \in BOOLEAN, save_ok \in BOOLEAN :
           notification_handler(p[1], p[2], session_ok, save_ok)

NextSession == SessionNotify

SpecSession == InitSession /\ [][NextSession]_vars

(***************************************************************************)
(* SpecThreads: the python_app reader as its two threads run it.  The      *)
(* notification handler runs on the Bluetooth thread, _update_worker on    *)
(* the update thread; a thread's step is the code it runs between two      *)
(* operations on datapoints_lock.                                          *)
(***************************************************************************)
\* handler: _extract_speed and the test and clock read of
\* _add_speed_datapoint, up to its with statement.  No lock is held.
handler_extract(name, data) ==
    /\ kind = "app"
    /\ pc.handler = "idle"
    /\ name = APP_CSC => RevStepOK(data, last_wheel_revs, NoneInt)
    /\ \E r \in {extract_speed(last_wheel_revs, last_wheel_time, data, name)} :
       LET accepted == r.speed # NoneInt /\ ~(r.speed > AppSpeedLimit)
       IN  /\ last_wheel_revs' = r.revs
           /\ last_wheel_time' = r.time
           /\ pc' = IF accepted
                    THEN [pc EXCEPT !.handler = "add", !.speed = r.speed,
                                    !.handler_time = now]
                    ELSE pc
           /\ call' = [NoCall EXCEPT !.wheel = r.wheel, !.has_prev = r.has_prev,
                                     !.rev_diff = r.rev_diff,
                                     !.time_diff = r.time_diff,
                                     !.current_speed = r.speed]
    /\ data_entry' = [characteristic |-> name, raw_data |-> data,
                      decoded_data |-> EmptyDict]
    /\ notified' = notified + 1
    /\ UNCHANGED <<kind, now, last_crank_revs, last_crank_time, total_distance_m,
                   total_km, distance_file, session_data, speed_buffer,
                   last_smoothed_speed, last_update_time, total_distance_km,
                   speed_datapoints, current_speed, last_data_time,
                   stop_updates, wake, datapoints_lock>>

\* A slip: the append made without taking the lock.
handler_acquire_unlocked ==
    /\ kind = "app"
    /\ pc.handler = "add"
    /\ pc' = [pc EXCEPT !.handler = "locked"]
    /\ UNCHANGED <<kind, now, last_wheel_revs, last_wheel_time, distance_file,
                   call, notified, total_distance_km, speed_datapoints,
                   current_speed, last_data_time, stop_updates, wake,
                   datapoints_lock>>
    /\ ReaderVarsUnchanged

\* _add_speed_datapoint: with self.datapoints_lock, entered.
handler_acquire ==
    /\ kind = "app"
    /\ pc.handler = "add"
    /\ datapoints_lock = "none"
    /\ datapoints_lock' = "handler"
    /\ pc' = [pc EXCEPT !.handler = "locked"]
    /\ UNCHANGED <<kind, now, last_wheel_revs, last_wheel_time, distance_file,
                   call, notified, total_distance_km, speed_datapoints,
                   current_speed, last_data_time, stop_updates, wake>>
    /\ ReaderVarsUnchanged

\* _add_speed_datapoint: the locked block, and the release.
handler_append ==
    /\ kind = "app"
    /\ pc.handler = "locked"
    /\ speed_datapoints' = Append(speed_datapoints, pc.speed)
    /\ last_data_time' = pc.handler_time
    /\ datapoints_lock' = "none"
    /\ pc' = [pc EXCEPT !.handler = "idle", !.speed = NoneInt, !.handler_time = 0]
    /\ UNCHANGED <<kind, now, last_wheel_revs, last_wheel_time, distance_file,
                   call, notified, total_distance_km, current_speed,
                   stop_updates, wake>>
    /\ ReaderVarsUnchanged

\* _update_worker: the loop test, current_time = time.time(), and the with
\* statement entered.
worker_acquire ==
    /\ kind = "app"
    /\ pc.worker = "top"
    /\ ~stop_updates
    /\ now >= wake
    /\ datapoints_lock = "none"
    /\ datapoints_lock' = "worker"
    /\ pc' = [pc EXCEPT !.worker = "locked", !.worker_time = now]
    /\ UNCHANGED <<kind, now, last_wheel_revs, last_wheel_time, distance_file,
                   call, notified, total_distance_km, speed_datapoints,
                   current_speed, last_data_time, stop_updates, wake>>
    /\ ReaderVarsUnchanged

\* _update_worker, in the locked block: recent_datapoints, a copy of the list.
worker_copy ==
    /\ kind = "app"
    /\ pc.worker = "locked"
    /\ pc' = [pc EXCEPT !.worker = "averaging",
                        !.recent_datapoints = speed_datapoints]
    /\ UNCHANGED <<kind, now, last_wheel_revs, last_wheel_time, distance_file,
                   call, notified, total_distance_km, speed_datapoints,
                   current_speed, last_data_time, stop_updates, wake,
                   datapoints_lock>>
    /\ ReaderVarsUnchanged

\* _update_worker: the rest of the locked block (the average and the clear,
\* or the decay), and the release.
worker_update ==
    /\ kind = "app"
    /\ pc.worker = "averaging"
    /\ current_speed' = WorkerSpeed(pc.recent_datapoints, current_speed,
                                    pc.worker_time, last_data_time)
    /\ speed_datapoints' = IF pc.recent_datapoints # <<>> THEN <<>>
                           ELSE speed_datapoints
    /\ datapoints_lock' = "none"
    /\ pc' = [pc EXCEPT !.worker = "distance", !.worker_time = 0,
                        !.recent_datapoints = <<>>]
    /\ UNCHANGED <<kind, now, last_wheel_revs, last_wheel_time, distance_file,
                   call, notified, total_distance_km, last_data_time,
                   stop_updates, wake>>
    /\ ReaderVarsUnchanged

\* _update_worker: the distance update and the display after the locked
\* block, then time.sleep(1.0).  No lock is held.
worker_distance(save_ok) ==
    /\ kind = "app"
    /\ pc.worker = "distance"
    /\ LET total == IF current_speed > 0
                    THEN total_distance_km + DistanceIncrement(current_speed)
                    ELSE total_distance_km
       IN  /\ total_distance_km' = total
           /\ distance_file' = IF current_speed > 0 /\ save_ok THEN total
                               ELSE distance_file
    /\ wake' = now + 2
    /\ pc' = [pc EXCEPT !.worker = "top",
                        !.display = <<current_speed, total_distance_km'>>]
    /\ UNCHANGED <<kind, now, last_wheel_revs, last_wheel_time, call, notified,
                   speed_datapoints, current_speed, last_data_time,
                   stop_updates, datapoints_lock>>
    /\ ReaderVarsUnchanged

ThreadNotify ==
    /\ notified < MaxThreadPackets
    /\ \E p \in AppPackets : handler_extract(p[1], p[2])

ThreadWorker == \E save_ok \in BOOLEAN : worker_distance(save_ok)

ThreadClock == ClockAdvance(1, MaxThreadTime)

NextThreads ==
    \/ ThreadNotify \/ handler_acquire \/ handler_append
    \/ worker_acquire \/ worker_copy \/ worker_update \/ ThreadWorker
    \/ ThreadClock

SpecThreads == InitKind("app") /\ [][NextThreads]_vars

(***************************************************************************)
(* SpecTimer: the update timer of the menu bar apps, iConsoleMenuBarApp    *)
(* of menubar_app.py and its subclass EnhancedMenuBarApp of the daemon.    *)
(***************************************************************************)
\* Timer(2.0, ...): the delay in units of the wall clock.
TimerDelay == 4

\* start_timer applied to the app's state p: a new Timer is made, stored in
\* self.timer and started.  The Timer self.timer referred to is left alone.
start_timer(p) ==
    [p EXCEPT !.created = p.created + 1,
              !.timer = p.created + 1,
              !.pending = p.pending \cup {[id |-> p.created + 1, due |-> now + TimerDelay]}]

\* iConsoleMenuBarApp.__init__: update_data(), then start_timer().
menubar_init ==
    /\ kind = "fixed"
    /\ pc.menubar = "new"
    /\ \E cls \in {"iConsoleMenuBarApp", "EnhancedMenuBarApp"} :
         pc' = [start_timer(pc) EXCEPT
                   !.updated = now,
                   !.menubar = IF cls = "EnhancedMenuBarApp" THEN "super" ELSE "running"]
    /\ UNCHANGED <<kind, now, last_wheel_revs, last_wheel_time, distance_file,
                   call, notified, total_distance_km, speed_datapoints,
                   current_speed, last_data_time, stop_updates, wake,
                   datapoints_lock>>
    /\ ReaderVarsUnchanged

\* EnhancedMenuBarApp.__init__ after super().__init__(): start_timer().
enhanced_init ==
    /\ kind = "fixed"
    /\ pc.menubar = "super"
    /\ pc' = [start_timer(pc) EXCEPT !.menubar = "running"]
    /\ UNCHANGED <<kind, now, last_wheel_revs, last_wheel_time, distance_file,
                   call, notified, total_distance_km, speed_datapoints,
                   current_speed, last_data_time, stop_updates, wake,
                   datapoints_lock>>
    /\ ReaderVarsUnchanged

\* A pending Timer fires once its delay has passed: update_loop starts on the
\* timer's thread and calls update_data().
timer_fire ==
    /\ kind = "fixed"
    /\ pc.menubar # "new"
    /\ \E tm \in pc.pending :
         /\ now >= tm.due
         /\ pc' = [pc EXCEPT !.pending = pc.pending \ {tm},
                             !.firing = pc.firing + 1,
                             !.updated = now]
    /\ UNCHANGED <<kind, now, last_wheel_revs, last_wheel_time, distance_file,
                   call, notified, total_distance_km, speed_datapoints,
                   current_speed, last_data_time, stop_updates, wake,
                   datapoints_lock>>
    /\ ReaderVarsUnchanged

\* update_loop, after update_data(): self.start_timer().
timer_restart ==
    /\ kind = "fixed"
    /\ pc.firing > 0
    /\ pc.created < MaxTimers
    /\ pc' = [start_timer(pc) EXCEPT !.firing = pc.firing - 1]
    /\ UNCHANGED <<kind, now, last_wheel_revs, last_wheel_time, distance_file,
                   call, notified, total_distance_km, speed_datapoints,
                   current_speed, last_data_time, stop_updates, wake,
                   datapoints_lock>>
    /\ ReaderVarsUnchanged

\* quit_clicked, on the main thread: self.timer.cancel() if the attribute
\* exists (cancel of a Timer that has fired does nothing), then
\* rumps.quit_application().
quit_clicked ==
    /\ kind = "fixed"
    /\ pc.menubar = "running"
    /\ pc' = [pc EXCEPT !.pending = {tm \in pc.pending : tm.id # pc.timer},
                        !.menubar = "quit"]
    /\ UNCHANGED <<kind, now, last_wheel_revs, last_wheel_time, distance_file,
                   call, notified, total_distance_km, speed_datapoints,
                   current_speed, last_data_time, stop_updates, wake,
                   datapoints_lock>>
    /\ ReaderVarsUnchanged

TimerClock == ClockAdvance(1, MaxTimerTime)

NextTimer ==
    \/ menubar_init \/ enhanced_init \/ timer_fire \/ timer_restart
    \/ quit_clicked \/ TimerClock

SpecTimer == InitKind("fixed") /\ [][NextTimer]_vars

(***************************************************************************)
(* SpecStop: the two threads of the python_app reader and a call of        *)
(* stop_update_thread, made by disconnect() on the thread that also runs   *)
(* the notification handler.                                               *)
(***************************************************************************)
\* A slip: the flag set and the call returning without the join.
stop_update_thread_no_join ==
    /\ kind = "app"
    /\ pc.join = "none"
    /\ pc.handler = "idle"
    /\ now <= MaxStopCallTime
    /\ stop_updates' = TRUE
    /\ pc' = [pc EXCEPT !.join = "returned"]
    /\ UNCHANGED <<kind, now, last_wheel_revs, last_wheel_time, distance_file,
                   call, notified, total_distance_km, speed_datapoints,
                   current_speed, last_data_time, wake, datapoints_lock>>
    /\ ReaderVarsUnchanged

\* stop_update_thread: self.stop_updates = True, and update_thread.join()
\* entered (update_thread is set: start_data_stream started the thread).
stop_update_thread ==
    /\ kind = "app"
    /\ pc.join = "none"
    /\ pc.handler = "idle"
    /\ now <= MaxStopCallTime
    /\ stop_updates' = TRUE
    /\ pc' = [pc EXCEPT !.join = "joining"]
    /\ UNCHANGED <<kind, now, last_wheel_revs, last_wheel_time, distance_file,
                   call, notified, total_distance_km, speed_datapoints,
                   current_speed, last_data_time, wake, datapoints_lock>>
    /\ ReaderVarsUnchanged

\* _update_worker: time.sleep(1.0) has returned and the loop test finds
\* stop_updates set; the thread ends.
worker_exit ==
    /\ kind = "app"
    /\ pc.worker = "top"
    /\ stop_updates
    /\ now >= wake
    /\ pc' = [pc EXCEPT !.worker = "done"]
    /\ UNCHANGED stop_updates
    /\ UNCHANGED <<kind, now, last_wheel_revs, last_wheel_time, distance_file,
                   call, notified, total_distance_km, speed_datapoints,
                   current_speed, last_data_time, wake, datapoints_lock>>
    /\ ReaderVarsUnchanged

\* update_thread.join() returns once the thread has ended.
join_return ==
    /\ kind = "app"
    /\ pc.join = "joining"
    /\ pc.worker = "done"
    /\ pc' = [pc EXCEPT !.join = "returned"]
    /\ UNCHANGED stop_updates
    /\ UNCHANGED <<kind, now, last_wheel_revs, last_wheel_time, distance_file,
                   call, notified, total_distance_km, speed_datapoints,
                   current_speed, last_data_time, wake, datapoints_lock>>
    /\ ReaderVarsUnchanged

\* Notifications are delivered on the thread that calls stop_update_thread:
\* none is handled during or after the call.
StopNotify ==
    /\ notified < MaxStopPackets
    /\ pc.join = "none"
    /\ \E p \in AppPackets : handler_extract(p[1], p[2])

\* time.sleep(1.0) returns on time: the clock does not pass the wake-up time
\* before the update thread has run.
StopClock == now < wake /\ ClockAdvance(1, MaxStopTime)

NextStop ==
    \/ StopNotify \/ handler_acquire \/ handler_append
    \/ worker_acquire \/ worker_copy \/ worker_update \/ ThreadWorker
    \/ stop_update_thread \/ worker_exit \/ join_return
    \/ StopClock

\* Both threads are scheduled, and the clock runs.
SpecStop ==
    /\ InitKind("app") /\ [][NextStop]_vars
    /\ WF_vars(handler_acquire) /\ WF_vars(handler_append)
    /\ WF_vars(worker_acquire) /\ WF_vars(worker_copy)
    /\ WF_vars(worker_update) /\ WF_vars(ThreadWorker)
    /\ WF_vars(worker_exit) /\ WF_vars(join_return)
    /\ WF_vars(StopClock)

(***************************************************************************)
(* SpecService: HelthDaemon.start_iconsole_service running a               *)
(* FixedConsoleDataReader: connect, start_data_stream (the subscriptions,  *)
(* any start_notify raising, then the keep-alive loop), the retry after a  *)
(* failed connect, and the notifications of the subscribed                 *)
(* characteristics.                                                        *)
(***************************************************************************)
StandardCharacteristics == {INDOOR_BIKE, CSC, POWER}

\* _try_subscribe_to_characteristics: the characteristics subscribed, raises
\* being those whose start_notify raises; each exception is caught in the loop.
try_subscribe_to_characteristics(raises) == StandardCharacteristics \ raises

\* _discover_and_subscribe_custom: the same over the notifiable
\* characteristics the device offers.
discover_and_subscribe_custom(customs, raises) == customs \ raises

\* while self.running: the loop test, and connect() called.
service_loop ==
    /\ kind = "fixed"
    /\ pc.service = "start"
    /\ pc' = [pc EXCEPT !.service = IF pc.running THEN "connecting" ELSE "stopped"]
    /\ UNCHANGED <<kind, now, last_wheel_revs, last_wheel_time, distance_file,
                   call, notified, total_distance_km, speed_datapoints,
                   current_speed, last_data_time, stop_updates, wake,
                   datapoints_lock>>
    /\ ReaderVarsUnchanged

\* await self.iconsole_reader.connect(): True, or False (an exception of the
\* client is caught in connect and gives False).
service_connect(ok) ==
    /\ kind = "fixed"
    /\ pc.service = "connecting"
    /\ pc' = [pc EXCEPT !.service = IF ok THEN "connected" ELSE "retry",
                        !.link = IF ok THEN "up" ELSE "none"]
    /\ UNCHANGED <<kind, now, last_wheel_revs, last_wheel_time, distance_file,
                   call, notified, total_distance_km, speed_datapoints,
                   current_speed, last_data_time, stop_updates, wake,
                   datapoints_lock>>
    /\ ReaderVarsUnchanged

\* start_data_stream up to its keep-alive loop, which does not end.
start_data_stream(customs, raises) ==
    /\ kind = "fixed"
    /\ pc.service = "connected"
    /\ LET standard == try_subscribe_to_characteristics(raises)
           custom   == IF standard = {}
                       THEN discover_and_subscribe_custom(customs, raises)
                       ELSE {}
           tried    == StandardCharacteristics
                       \cup (IF standard = {} THEN customs ELSE {})
       IN  pc' = [pc EXCEPT !.service = "streaming",
                            !.subscribed = standard \cup custom,
                            !.failed = Cardinality(tried \cap raises)]
    /\ UNCHANGED <<kind, now, last_wheel_revs, last_wheel_time, distance_file,
                   call, notified, total_distance_km, speed_datapoints,
                   current_speed, last_data_time, stop_updates, wake,
                   datapoints_lock>>
    /\ ReaderVarsUnchanged

\* After a failed connect: asyncio.sleep(10), then the finally clause calls
\* disconnect().
service_disconnect ==
    /\ kind = "fixed"
    /\ pc.service = "retry"
    /\ pc' = [pc EXCEPT !.service = "closed", !.link = "none"]
    /\ UNCHANGED <<kind, now, last_wheel_revs, last_wheel_time, distance_file,
                   call, notified, total_distance_km, speed_datapoints,
                   current_speed, last_data_time, stop_updates, wake,
                   datapoints_lock>>
    /\ ReaderVarsUnchanged

\* A slip: the loop left after a round that failed.
service_retry_gives_up ==
    /\ kind = "fixed"
    /\ pc.service = "closed"
    /\ pc' = [pc EXCEPT !.service = "stopped"]
    /\ UNCHANGED <<kind, now, last_wheel_revs, last_wheel_time, distance_file,
                   call, notified, total_distance_km, speed_datapoints,
                   current_speed, last_data_time, stop_updates, wake,
                   datapoints_lock>>
    /\ ReaderVarsUnchanged

\* if self.running: asyncio.sleep(5); then the next round of the loop.
service_retry ==
    /\ kind = "fixed"
    /\ pc.service = "closed"
    /\ pc' = [pc EXCEPT !.service = "start", !.retried = TRUE]
    /\ UNCHANGED <<kind, now, last_wheel_revs, last_wheel_time, distance_file,
                   call, notified, total_distance_km, speed_datapoints,
                   current_speed, last_data_time, stop_updates, wake,
                   datapoints_lock>>
    /\ ReaderVarsUnchanged

\* HelthDaemon.stop(): self.running = False, from the main thread.
stop ==
    /\ kind = "fixed"
    /\ pc.running
    /\ pc' = [pc EXCEPT !.running = FALSE]
    /\ UNCHANGED <<kind, now, last_wheel_revs, last_wheel_time, distance_file,
                   call, notified, total_distance_km, speed_datapoints,
                   current_speed, last_data_time, stop_updates, wake,
                   datapoints_lock>>
    /\ ReaderVarsUnchanged

\* The device goes out of range or is switched off while streaming.  No
\* disconnected callback is registered and the keep-alive loop only sleeps.
connection_lost ==
    /\ kind = "fixed"
    /\ pc.service = "streaming"
    /\ pc.link = "up"
    /\ pc' = [pc EXCEPT !.link = "down"]
    /\ UNCHANGED <<kind, now, last_wheel_revs, last_wheel_time, distance_file,
                   call, notified, total_distance_km, speed_datapoints,
                   current_speed, last_data_time, stop_updates, wake,
                   datapoints_lock>>
    /\ ReaderVarsUnchanged

ServiceInputs ==
    {<<CSC, WheelPacket(<<0, p[1]>>, p[2])>> :
         p \in {<<1000, 0>>, <<1010, 1024>>, <<1011, 13957>>}}
    \cup {<<INDOOR_BIKE, <<1, 0>> \o PackH(1500)>>,
          <<POWER, <<0, 0, 120, 0>>>>,
          <<CUSTOM, <<30, 0>>>>}

ServiceConnect == \E ok \in BOOLEAN : service_connect(ok)

ServiceSubscribe ==
    \E customs \in SUBSET {CUSTOM},
       raises \in SUBSET (StandardCharacteristics \cup {CUSTOM}) :
        start_data_stream(customs, raises)

\* The transport delivers notifications of subscribed characteristics only.
ServiceNotify ==
    /\ notified < MaxServicePackets
    /\ pc.service = "streaming"
    /\ pc.link = "up"
    /\ \E p \in ServiceInputs, save_ok \in BOOLEAN :
           /\ p[1] \in pc.subscribed
           /\ notification_handler(p[1], p[2], TRUE, save_ok)

NextService ==
    \/ service_loop \/ ServiceConnect \/ ServiceSubscribe
    \/ service_disconnect \/ service_retry
    \/ stop \/ connection_lost \/ ServiceNotify

SpecService == InitKind("fixed") /\ [][NextService]_vars

\* The service coroutine keeps running: each of its steps is taken once it is
\* due.  Nothing is assumed of stop(), the device or the notifications.
SpecServiceFair ==
    /\ SpecService
    /\ WF_vars(service_loop)
    /\ WF_vars(ServiceConnect)
    /\ WF_vars(ServiceSubscribe)
    /\ WF_vars(service_disconnect)
    /\ WF_vars(service_retry)

(***************************************************************************)
(* SpecDecay: the python_app reader when the datapoints stop: a few        *)
(* notifications in the first second, then none, while the update thread   *)
(* keeps running.  time.sleep(1.0) returns on time: the clock does not     *)
(* pass the wake-up time before the update thread has run, and both keep   *)
(* going (weak fairness).                                                  *)
(***************************************************************************)
DecayPackets ==
    {<<APP_INDOOR, <<1, 0>> \o PackH(1500)>>,
     <<APP_INDOOR, <<1, 0>> \o PackH(6000)>>,
     <<APP_OTHER, PackH(30)>>}

DecayNotify ==
    /\ notified < MaxDecayPackets
    /\ now <= MaxDecayNotifyTime
    /\ \E p \in DecayPackets : handler(p[1], p[2])

DecayClock == now < wake /\ ClockAdvance(1, MaxDecayTime)

NextDecay == DecayNotify \/ AppUpdate \/ DecayClock

SpecDecay ==
    /\ InitKind("app")
    /\ [][NextDecay]_vars
    /\ WF_vars(AppUpdate)
    /\ WF_vars(DecayClock)

(***************************************************************************)
(* Properties.                                                             *)
(***************************************************************************)
\* The event time and the counters of the notification just handled.
HandledWheelTime == UnpackH(Slice(data_entry'.raw_data, 5, 7))
HandledCrankTime ==
    LET offset == IF PacketWheel(data_entry'.raw_data) # NoneRevs THEN 7 ELSE 1
    IN  UnpackH(Slice(data_entry'.raw_data, offset + 2, offset + 4))

\* The step is the handling of one notification.
Handled == notified' # notified

\* (cur - prev) mod 2^32 on limbs, as an integer when it is below 65536
\* and 65536 otherwise.
WrappedWheelDelta(cur, prev) ==
    LET dlo == cur[2] - prev[2]
        borrow == IF dlo < 0 THEN 1 ELSE 0
        hi  == (cur[1] - prev[1] - borrow) % 65536
    IN  IF hi = 0 THEN dlo % 65536 ELSE 65536

\* C1: cumulative distance never decreases: no step of any reader lowers
\* total_distance_m, total_km (base and fixed reader) or total_distance_km
\* (python_app reader).
C1_MonotonicDistance ==
    [][/\ total_distance_m' >= total_distance_m
       /\ total_km' >= total_km
       /\ total_distance_km' >= total_distance_km]_vars

\* The base reader has raised total_km above a non-zero persisted baseline and
\* has then handled a wheel packet whose count stepped back.
C1_Witness ==
    /\ kind = "base"
    /\ total_km > 8 * wheel_circumference_m
    /\ call.wheel /\ call.has_prev /\ call.rev_diff < 0

\* C2: the revolution delta is computed modulo the counter's width: after a
\* wheel (crank) packet whose count is numerically below the stored one, the
\* delta used is (current - previous) mod 2^32 (mod 2^16), a positive number.
C2_WrappedDelta ==
    [][/\ (Handled /\ call'.wheel /\ call'.has_prev /\ call'.rev_diff < 0
           /\ WrappedWheelDelta(last_wheel_revs', last_wheel_revs) <= MaxRevStep)
          => /\ kind \in {"base", "fixed"}
                => total_distance_m' = total_distance_m
                     + WrappedWheelDelta(last_wheel_revs', last_wheel_revs)
                       * wheel_circumference_m
             /\ call'.usable
       /\ (Handled /\ call'.crank /\ call'.crank_has_prev
           /\ last_crank_revs' < last_crank_revs
           /\ (last_crank_revs' - last_crank_revs) % 65536 <= MaxRevStep)
          => call'.crank_rev_diff = (last_crank_revs' - last_crank_revs) % 65536
      ]_vars

\* C3: the time delta used for speed and for cadence is (current - previous)
\* mod 65536, never negative, in the base and fixed readers' wheel and crank
\* calculations and in the python_app reader's _extract_speed.
C3_TimeDelta ==
    [][/\ (Handled /\ call'.wheel /\ call'.has_prev)
          => /\ call'.time_diff = (HandledWheelTime - last_wheel_time) % 65536
             /\ call'.time_diff >= 0
       /\ (Handled /\ call'.crank /\ call'.crank_has_prev)
          => /\ call'.crank_time_diff = (HandledCrankTime - last_crank_time) % 65536
             /\ call'.crank_time_diff >= 0
      ]_vars

\* The python_app reader has handled event time 100 after 65000: delta 636.
C3_Witness ==
    /\ kind = "app"
    /\ call.wheel /\ call.has_prev
    /\ last_wheel_time = 100
    /\ call.time_diff = 636

\* C4: every speed returned by FixedConsoleDataReader._calculate_wheel_metrics,
\* on a tick and between ticks, is 0 or at least min_speed_threshold, never
\* negative; and while the history and the smoothed speed before the call
\* are below the threshold (as in a stream of 0.3 km/h samples) it is 0.
C4_FloorSnap ==
    (kind = "fixed" /\ call.wheel)
        => /\ call.speed_kmh = 0 \/ call.speed_kmh >= min_speed_threshold
           /\ last_smoothed_speed >= 0
           /\ (/\ call.prev_smoothed < min_speed_threshold
               /\ \A i \in 1..Len(speed_buffer) :
                      speed_buffer[i] < min_speed_threshold)
              => /\ call.speed_kmh = 0
                 /\ last_smoothed_speed < min_speed_threshold

\* The fixed reader has ticked on the second sample of a 0.3 km/h stream: it
\* holds a positive smoothed speed and has returned 0.
C4_Witness ==
    /\ kind = "fixed"
    /\ call.wheel /\ call.ticked
    /\ speed_buffer = <<30, 30>>
    /\ call.current_speed = 30
    /\ last_smoothed_speed > 0
    /\ call.speed_kmh = 0

\* C5: on every filter tick the rate-limited estimate is at most
\* max_acceleration x elapsed above, and at most max_deceleration x elapsed
\* below, the smoothed speed stored before the tick.
C5_RateLimit ==
    (kind = "fixed" /\ call.wheel /\ call.ticked)
        => /\ call.limited - call.prev_smoothed <= max_acceleration * call.elapsed
           /\ call.prev_smoothed - call.limited <= max_deceleration * call.elapsed

\* Smoothed speed 10 km/h, robust estimate 30 km/h, 1 s elapsed: limited to 12.
C5_Witness ==
    /\ kind = "fixed"
    /\ call.wheel /\ call.ticked
    /\ call.prev_smoothed = 1000
    /\ call.robust = 3000
    /\ call.elapsed = 2
    /\ call.limited = 1200

\* The history [10,10,11,9,10,200] has just been filtered on a tick.
C6_Case ==
    /\ kind = "fixed"
    /\ call.wheel /\ call.ticked
    /\ speed_buffer = <<1000, 1000, 1100, 900, 1000, 20000>>

\* C6 as stated: with history [10,10,11,9,10,200] the outlier stage excludes
\* 200 from the set whose median is taken, and the robust estimate is 10.
C6_Excludes200 ==
    C6_Case => /\ call.kept = <<1000, 1000, 1100, 900, 1000>>
               /\ call.robust = 1000

\* C6 as amended: with history [10,10,11,9,10,200] the outlier stage keeps
\* all six readings, 200 included (it lies within 3 sample standard
\* deviations of the mean), and the robust estimate is the median of
\* [9,10,10,10,11,200] = 10.
C6_Keeps200 ==
    C6_Case => /\ call.kept = <<1000, 1000, 1100, 900, 1000, 20000>>
               /\ call.robust = 1000

\* A tick has filtered that history: six readings kept, the estimate 10.
C6_Witness ==
    /\ C6_Case
    /\ Len(call.kept) = 6
    /\ call.robust = 1000

\* The first sample tick of a fixed reader: 1010 revolutions at event time
\* 1024 handled after 1000 at 0, on an empty history and a smoothed speed of 0.
C7_Case ==
    /\ kind = "fixed"
    /\ notified = 2
    /\ call.wheel /\ call.has_prev /\ call.ticked
    /\ last_wheel_revs = <<0, 1010>> /\ last_wheel_time = 1024
    /\ call.rev_diff = 10 /\ call.time_diff = 1024
    /\ call.prev_smoothed = 0
    /\ speed_buffer = <<call.current_speed>>

\* C7 as stated: after one tick from a cold start on 1000 -> 1010
\* revolutions over event time 0 -> 1024 the smoothed speed is about
\* 0.15 x 37.89 = 5.68 km/h and the distance increment is 10.525 m.
C7_ColdStart ==
    C7_Case => /\ last_smoothed_speed \in 563..573
               /\ total_distance_m \in {b + 10 * wheel_circumference_m : b \in Baselines}

\* C7 as amended: the instantaneous speed is 37.89 km/h and the distance
\* increment 10.525 m, but the smoothed speed is 0.15 x min(37.89,
\* max_acceleration x elapsed): 0.3 km/h (returned as 0) one second after the
\* last tick, and 5.68 km/h only from 18.945 s of elapsed time on.
C7_ColdStartLimited ==
    C7_Case => /\ call.current_speed = 3789
               /\ total_distance_m \in {b + 10 * wheel_circumference_m : b \in Baselines}
               /\ call.limited = (IF max_acceleration * call.elapsed < 3789
                                  THEN max_acceleration * call.elapsed ELSE 3789)
               /\ last_smoothed_speed = (smoothing_factor * call.limited) \div 100
               /\ call.speed_kmh = (IF last_smoothed_speed >= min_speed_threshold
                                    THEN last_smoothed_speed ELSE 0)
               /\ (call.elapsed = 2) => (last_smoothed_speed = 30 /\ call.speed_kmh = 0)
               /\ (call.elapsed >= 38) => last_smoothed_speed = 568

\* The cold-start tick one second after the reader was built: 0.3 km/h stored.
C7_Witness ==
    /\ C7_Case
    /\ call.elapsed = 2
    /\ last_smoothed_speed = 30
    /\ call.speed_kmh = 0

\* The dict _decode_indoor_bike_data must return: the flagged fields in the
\* order speed, cadence, distance, power, one 2-byte slot each from offset 2,
\* a field present only if its slot lies inside the buffer.
IndoorKeys == <<"speed_kmh", "cadence_rpm", "distance_m", "power_watts">>
IndoorBit(flags, i) == (flags \div (2 ^ (i - 1))) % 2 = 1
IndoorSlot(flags, i) ==
    2 + 2 * Cardinality({j \in 1..(i - 1) : IndoorBit(flags, j)})
IndoorExpected(data) ==
    IF Len(data) < 2 THEN EmptyDict
    ELSE LET flags == data[1] + 256 * data[2]
             present == {i \in 1..4 : /\ IndoorBit(flags, i)
                                      /\ IndoorSlot(flags, i) + 2 <= Len(data)}
             raw(i) == data[IndoorSlot(flags, i) + 1]
                       + 256 * data[IndoorSlot(flags, i) + 2]
         IN  [k \in {"flags"} \cup {IndoorKeys[i] : i \in present} |->
                 IF k = "flags" THEN flags
                 ELSE LET i == CHOOSE i \in present : IndoorKeys[i] = k
                      IN  IF i = 4 /\ raw(i) >= 32768 THEN raw(i) - 65536
                          ELSE raw(i)]

\* C8: for every flags value and buffer length _decode_indoor_bike_data reads
\* speed, cadence, distance, power in that order from consecutive 2-byte
\* slots from offset 2, keeps a field only if flagged and wholly inside the
\* buffer, and reads nothing past the end.
C8_IndoorFields ==
    data_entry.characteristic = INDOOR_BIKE
        => data_entry.decoded_data = IndoorExpected(data_entry.raw_data)

\* Flags speed+power, buffer ending after the speed field: speed, no power.
C8_Witness ==
    /\ data_entry.characteristic = INDOOR_BIKE
    /\ Len(data_entry.raw_data) = 4
    /\ data_entry.raw_data[1] = 9
    /\ DOMAIN data_entry.decoded_data = {"flags", "speed_kmh"}
    /\ data_entry.decoded_data["speed_kmh"] = 267

\* C9: in _decode_csc_data, when flag bit0 is set the crank fields are
\* decoded only from the 4 bytes at offset 7; a packet with bit0 set that is
\* too short for them yields no crank fields and leaves the stored crank
\* state alone.
C9_CrankOffset ==
    [][(/\ Handled
        /\ data_entry'.characteristic = CSC
        /\ Len(data_entry'.raw_data) >= 1
        /\ BitSet(data_entry'.raw_data[1], 1))
       => IF "crank_revolutions" \in DOMAIN data_entry'.decoded_data
          THEN /\ Len(data_entry'.raw_data) >= 11
               /\ data_entry'.decoded_data["crank_revolutions"]
                      = UnpackH(Slice(data_entry'.raw_data, 7, 9))
               /\ data_entry'.decoded_data["crank_event_time"]
                      = UnpackH(Slice(data_entry'.raw_data, 9, 11))
          ELSE UNCHANGED <<last_crank_revs, last_crank_time>>
      ]_vars

\* C10: distance is increased by a packet only if that packet's delta is
\* usable: revolution delta > 0 and rollover-corrected time delta > 0.
C10_OnlyUsable ==
    [][(total_distance_m' > total_distance_m \/ total_km' > total_km)
          => Handled /\ call'.usable]_vars

\* C11: every usable instantaneous speed sample of the fixed reader is
\* appended to speed_buffer, also when the packet arrives less than
\* update_interval after the previous filter tick.
C11_EverySampleAppended ==
    [][(Handled /\ kind = "fixed" /\ call'.wheel /\ call'.usable)
          => speed_buffer' = (IF Len(speed_buffer) >= buffer_size
                              THEN Append(Tail(speed_buffer), call'.current_speed)
                              ELSE Append(speed_buffer, call'.current_speed))
      ]_vars

\* C12: the filter is re-evaluated once per update interval independently of
\* packet arrival: while a smoothed speed above 0 is stored and a tick is
\* due, a step without a packet runs the tick.
C12_TicksWithoutPackets ==
    [][(/\ ~Handled
        /\ kind = "fixed"
        /\ last_smoothed_speed > 0
        /\ now' - last_update_time >= update_interval)
          => last_update_time' = now'
      ]_vars

\* C13: a packet that arrives less than update_interval after the last
\* filter tick leaves speed_buffer, last_smoothed_speed and last_update_time
\* unchanged and returns the speed of that tick: the stored smoothed speed,
\* or 0 when it is below the floor.
C13_BetweenTicks ==
    [][(/\ Handled
        /\ kind = "fixed"
        /\ call'.wheel
        /\ now - last_update_time < update_interval)
          => /\ UNCHANGED <<speed_buffer, last_smoothed_speed, last_update_time>>
             /\ call'.speed_kmh = (IF last_smoothed_speed >= min_speed_threshold
                                   THEN last_smoothed_speed ELSE 0)
             /\ (call.wheel /\ call.ticked) => call'.speed_kmh = call.speed_kmh
      ]_vars

\* A usable packet handled between ticks: the stored speed, above the floor,
\* is returned and the history holds the one sample of the last tick.
C13_Witness ==
    /\ kind = "fixed"
    /\ call.wheel /\ call.usable /\ ~call.ticked
    /\ now - last_update_time < update_interval
    /\ last_smoothed_speed >= min_speed_threshold
    /\ call.speed_kmh = last_smoothed_speed
    /\ Len(speed_buffer) = 1

\* iConsoleMenuBarApp.update_data: the speed shown for the latest entry of
\* the session file, decoded_data.get('calculated_speed_kmh', 0.0).
DisplayedSpeed(entry) ==
    IF "calculated_speed_kmh" \in DOMAIN entry.decoded_data
    THEN entry.decoded_data["calculated_speed_kmh"] ELSE 0

\* C14: a wheel packet that yields no usable delta leaves the speed visible
\* to the consumer as it was: the speed the menu bar shows for the latest
\* entry, and the speed the fixed reader returns.
C14_SpeedPreserved ==
    [][(/\ Handled
        /\ kind \in {"base", "fixed"}
        /\ notified > 0
        /\ call'.wheel /\ ~call'.usable)
          => /\ DisplayedSpeed(data_entry') = DisplayedSpeed(data_entry)
             /\ (kind = "fixed" /\ call.wheel) => call'.speed_kmh = call.speed_kmh
      ]_vars

\* C15: on a filter tick with fewer than 3 entries in speed_buffer the
\* robust estimate is the most recent usable sample when one has been
\* received, and 0 only when none has.
C15_LatestSample ==
    (kind = "fixed" /\ call.wheel /\ call.ticked /\ Len(speed_buffer) < 3)
        => call.robust = (IF speed_buffer # <<>>
                          THEN speed_buffer[Len(speed_buffer)] ELSE 0)

\* C16: speed_buffer never holds more than buffer_size entries, keeps its
\* entries in arrival order (a tick with a sample appends it at the end, no
\* other step changes the buffer), and loses its oldest entry when a sample
\* is appended to a full buffer.
C16_BoundedFifo ==
    [][kind = "fixed"
          => /\ Len(speed_buffer') <= buffer_size
             /\ IF Handled /\ call'.wheel /\ call'.ticked /\ call'.usable
                THEN speed_buffer' =
                         (IF Len(speed_buffer) = buffer_size
                          THEN Tail(speed_buffer) ELSE speed_buffer)
                         \o <<call'.current_speed>>
                ELSE speed_buffer' = speed_buffer
      ]_vars

\* A sample of 0.3 km/h has been appended to a full history: the oldest
\* entry is gone, the 200 km/h entry has moved from place 10 to place 9.
C16_Witness ==
    /\ kind = "fixed"
    /\ call.wheel /\ call.ticked /\ call.usable
    /\ Len(speed_buffer) = buffer_size
    /\ speed_buffer[buffer_size] = 30
    /\ speed_buffer[buffer_size - 1] = 20000

\* C17: on a filter tick whose packet has no usable sample speed_buffer is
\* left exactly as it was.
C17_NoSyntheticZero ==
    [][(/\ Handled
        /\ kind = "fixed"
        /\ call'.wheel /\ call'.ticked /\ ~call'.usable)
          => speed_buffer' = speed_buffer
      ]_vars

\* A tick on a repeated packet with a history of five readings.
C17_Witness ==
    /\ kind = "fixed"
    /\ call.wheel /\ call.ticked /\ ~call.usable
    /\ call.has_prev /\ call.rev_diff = 0
    /\ speed_buffer = <<1000, 1000, 1100, 900, 1000>>

\* The entry is of a notification shorter than its mandatory prefix.
Short(entry) ==
    \/ entry.characteristic = CSC /\ Len(entry.raw_data) < 1
    \/ entry.characteristic = INDOOR_BIKE /\ Len(entry.raw_data) < 2
    \/ entry.characteristic = POWER /\ Len(entry.raw_data) < 4
    \/ entry.characteristic = CUSTOM /\ Len(entry.raw_data) < 1

CountedDistance ==
    IF call'.rev_diff > 0 THEN call'.rev_diff * wheel_circumference_m ELSE 0

\* C19: the cumulative distance a reader reports is its persisted baseline
\* plus the distance of the revolutions counted in the session: starting at
\* the baseline, total_km grows by each packet's counted distance, and the
\* packet's total_distance_km is that total.
C19_BaselinePlusSession ==
    [][(Handled /\ kind \in {"base", "fixed"} /\ call'.wheel)
          => /\ data_entry'.decoded_data["total_distance_km"]
                    = total_km + CountedDistance
             /\ total_km' = total_km + CountedDistance
      ]_vars

\* C20: a failing _save_total_distance leaves the in-memory totals at their
\* increased values: whatever the outcome of the write, a packet that counts
\* revolutions adds their distance to total_distance_m and raises total_km,
\* and the distance file holds its old content or the new total.
C20_SaveFailureKept ==
    [][(Handled /\ kind \in {"base", "fixed"} /\ call'.wheel /\ call'.rev_diff > 0)
          => LET dist == total_distance_m + call'.rev_diff * wheel_circumference_m
                 raised == IF dist > total_km THEN dist ELSE total_km
             IN  /\ total_distance_m' = dist
                 /\ kind = "fixed" => total_km' = raised
                 /\ kind = "base" => total_km' \in {total_km, raised}
                 /\ distance_file' \in {distance_file, total_km'}
      ]_vars

\* Two saves have failed in a base reader without a distance file: both
\* increases (10 and 1 revolutions) are in the totals, none in the file.
C20_Witness ==
    /\ kind = "base"
    /\ notified = 3
    /\ distance_file = 0
    /\ total_distance_m = 11 * wheel_circumference_m
    /\ total_km = 11 * wheel_circumference_m

\* C21: the distance file is written exactly when total_km strictly
\* increases: a notification that raises total_km makes exactly one call of
\* _save_total_distance (the fixed reader's own save is not repeated by
\* _log_data_to_json), and one that does not raise it makes none.
C21_SaveOnIncrease ==
    [][(Handled /\ kind \in {"base", "fixed"})
          => call'.save_calls = (IF total_km' > total_km THEN 1 ELSE 0)
      ]_vars

\* A fixed reader has raised total_km in _calculate_wheel_metrics and made
\* one call of _save_total_distance, whose write failed.
C21_Witness ==
    /\ kind = "fixed"
    /\ call.wheel /\ call.rev_diff > 0
    /\ call.save_calls = 1
    /\ total_km = total_distance_m
    /\ total_km > distance_file

\* C22: the notification handler and the update thread of the python_app
\* reader never interleave on shared state: every step that writes the
\* counter state (last_wheel_revs, last_wheel_time) or the filter state
\* (speed_datapoints, current_speed, last_data_time), and the update
\* thread's read of current_speed for the distance, is taken by a thread
\* that holds datapoints_lock, and a handler never runs while the update
\* thread is inside its locked block.
C22_AccessUnderLock ==
    [][kind = "app"
          => /\ (last_wheel_revs' # last_wheel_revs \/ last_wheel_time' # last_wheel_time)
                    => datapoints_lock = "handler"
             /\ (speed_datapoints' # speed_datapoints \/ last_data_time' # last_data_time
                    \/ current_speed' # current_speed)
                    => datapoints_lock # "none"
             /\ (pc.worker = "distance" /\ pc'.worker = "top")
                    => datapoints_lock = "worker"
             /\ (Handled /\ pc.worker \in {"locked", "averaging"})
                    => datapoints_lock = "handler"
      ]_vars

\* C23: a subscribe failure is propagated out of start_data_stream to
\* HelthDaemon.start_iconsole_service, which applies its retry policy: when a
\* start_notify call raises, the service loop leaves start_data_stream for
\* its retry wait and does not go on to stream.
C23_SubscribeFailurePropagated ==
    [][(kind = "fixed" /\ pc.service = "connected" /\ pc'.failed > 0)
          => pc'.service = "retry"
      ]_vars

\* C24: no instantaneous speed above 50 km/h ever enters a filter history:
\* every element of the python_app reader's speed_datapoints and of
\* FixedConsoleDataReader's speed_buffer is at most 50 km/h.
C24_SpeedCeiling ==
    /\ \A i \in DOMAIN speed_datapoints : speed_datapoints[i] <= AppSpeedLimit
    /\ \A i \in DOMAIN speed_buffer : speed_buffer[i] <= AppSpeedLimit

\* C25: the first wheel sample of a stream (no previous counter state) only
\* seeds the counter state: it produces no instantaneous speed, adds nothing
\* to the cumulative distance, appends nothing to the filter history, and
\* afterwards last_wheel_revs and last_wheel_time are that sample's.
C25_FirstSampleSeeds ==
    [][(Handled /\ kind \in {"base", "fixed"} /\ call'.wheel
          /\ last_wheel_revs = NoneRevs)
          => /\ call'.current_speed = NoneInt
             /\ ~call'.usable
             /\ kind = "base"
                    => "calculated_speed_kmh" \notin DOMAIN data_entry'.decoded_data
             /\ UNCHANGED <<total_distance_m, total_km, distance_file, speed_buffer>>
             /\ last_wheel_revs' = PacketWheel(data_entry'.raw_data)
             /\ last_wheel_time' = HandledWheelTime
      ]_vars

\* A fixed reader has handled its first wheel sample on a filter tick.
C25_Witness ==
    /\ kind = "fixed"
    /\ notified = 1
    /\ call.wheel /\ ~call.has_prev /\ call.ticked
    /\ last_wheel_revs = <<0, 5>> /\ last_wheel_time = 100
    /\ speed_buffer = <<>>
    /\ total_distance_m = total_km

\* C26: counter state is updated exactly once per packet that carries the
\* field: after a CSC packet whose wheel (crank) data is decoded the stored
\* (revolutions, event time) pair of the wheel (crank) is that packet's,
\* whether or not the delta was usable or a filter tick ran; a packet without
\* wheel (crank) data, and any Indoor Bike, Power or generic packet, leaves
\* the pair unchanged.
C26_CountersFollowPackets ==
    [][(Handled /\ kind \in {"base", "fixed"})
          => LET data == data_entry'.raw_data
                 csc  == data_entry'.characteristic = CSC
             IN  /\ IF csc /\ PacketWheel(data) # NoneRevs
                    THEN /\ call'.wheel
                         /\ last_wheel_revs' = PacketWheel(data)
                         /\ last_wheel_time' = HandledWheelTime
                    ELSE /\ ~call'.wheel
                         /\ UNCHANGED <<last_wheel_revs, last_wheel_time>>
                 /\ IF csc /\ PacketCrank(data) # NoneInt
                    THEN /\ call'.crank
                         /\ last_crank_revs' = PacketCrank(data)
                         /\ last_crank_time' = HandledCrankTime
                    ELSE /\ ~call'.crank
                         /\ UNCHANGED <<last_crank_revs, last_crank_time>>
      ]_vars

\* A Power packet has been handled after a packet with wheel and crank data:
\* both stored pairs are still that packet's.
C26_Witness ==
    /\ data_entry.characteristic = POWER
    /\ notified = 2
    /\ last_wheel_revs = <<0, 15>> /\ last_wheel_time = 100
    /\ last_crank_revs = 5 /\ last_crank_time = 100

\* C27: on every filter tick the rate-limited estimate lies between the
\* previously stored smoothed speed and the robust estimate, inclusive: the
\* limiter never moves the estimate past the robust estimate, and the
\* rate-limited estimate is never negative.
C27_LimiterBetween ==
    (kind = "fixed" /\ call.wheel /\ call.ticked)
        => /\ call.limited >= 0
           /\ IF call.robust >= call.prev_smoothed
              THEN call.prev_smoothed <= call.limited /\ call.limited <= call.robust
              ELSE call.robust <= call.limited /\ call.limited <= call.prev_smoothed

\* C28: with a buffer of at most 10 readings and a threshold of 3 sample
\* standard deviations the outlier stage never removes an entry: on every
\* tick with 3 to 10 readings filtered_buffer is the whole speed_buffer, so
\* the fallback to the mean is not taken and the robust estimate is the
\* median of the whole history.
C28_NothingRemoved ==
    (kind = "fixed" /\ call.wheel /\ call.ticked /\ Len(speed_buffer) >= 3)
        => /\ call.kept = speed_buffer
           /\ call.robust = Median(speed_buffer)

\* A tick on a full history of nine readings of 10 km/h and one of 200 km/h,
\* the reading farthest from its mean that ten readings allow.
C28_Witness ==
    /\ kind = "fixed" /\ call.wheel /\ call.ticked
    /\ speed_buffer = Repeat(1000, 9) \o <<20000>>
    /\ call.kept = speed_buffer
    /\ call.robust = 1000

\* C29: last_smoothed_speed of FixedConsoleDataReader is non-negative in
\* every reachable state, also after a tick on which the deceleration limiter
\* computed an estimate below zero.
C29_SmoothedNonNegative == kind = "fixed" => last_smoothed_speed >= 0

\* A tick 2 s after the last one, on a packet without a sample, on which the
\* limiter computed 5.68 - 6.0 km/h; the smoothed speed stored is positive.
C29_Witness ==
    /\ kind = "fixed" /\ call.wheel /\ call.ticked
    /\ call.limited < 0
    /\ last_smoothed_speed > 0

\* C30: between two consecutive filter ticks of FixedConsoleDataReader
\* separated by elapsed seconds the stored smoothed speed rises by at most
\* smoothing_factor x max_acceleration x elapsed and falls by at most
\* smoothing_factor x max_deceleration x elapsed (to the rounding of one
\* unit of speed), whatever samples arrived; it changes on ticks only.
C30_SmoothedSlewBound ==
    [][kind = "fixed"
          => IF Handled /\ call'.wheel /\ call'.ticked
             THEN /\ 100 * (last_smoothed_speed' - last_smoothed_speed)
                         <= smoothing_factor * max_acceleration * call'.elapsed
                  /\ 100 * (last_smoothed_speed - last_smoothed_speed')
                         < smoothing_factor * max_deceleration * call'.elapsed + 100
                  /\ call'.elapsed = now - last_update_time
                  /\ call'.elapsed >= update_interval
             ELSE last_smoothed_speed' = last_smoothed_speed
      ]_vars

\* A tick 1 s after the last has lowered the stored speed by the whole
\* allowance, 0.45 km/h.
C30_Witness ==
    /\ kind = "fixed" /\ call.wheel /\ call.ticked
    /\ call.elapsed = update_interval
    /\ 100 * (call.prev_smoothed - last_smoothed_speed)
           = smoothing_factor * max_deceleration * call.elapsed

\* C31: in FixedConsoleDataReader the kilometre total and the metre total
\* stay in step: after construction and after every wheel packet
\* total_km x 1000 = total_distance_m, also when _save_total_distance fails.
C31_TotalsInStep == kind = "fixed" => total_km = total_distance_m

\* A fixed reader constructed with a baseline has counted 11 revolutions in
\* two packets, and no write of the distance file succeeded.
C31_Witness ==
    /\ kind = "fixed"
    /\ notified = 3
    /\ distance_file = 8 * wheel_circumference_m
    /\ total_distance_m = 19 * wheel_circumference_m
    /\ total_km = total_distance_m

\* C32: in the base reader a failing session-file write does not keep the
\* distance checkpoint from advancing: after every notification whose
\* decoded total_distance_km exceeds total_km, total_km is that value,
\* whether or not the session-file write succeeded.
C32_CheckpointAdvances ==
    [][(Handled /\ kind = "base"
          /\ "total_distance_km" \in DOMAIN data_entry'.decoded_data
          /\ data_entry'.decoded_data["total_distance_km"] > total_km)
          => total_km' = data_entry'.decoded_data["total_distance_km"]
      ]_vars

\* The step is the end of the update thread's locked block.
AveragingTick == pc.worker = "averaging" /\ pc'.worker = "distance"

\* C33: under every interleaving of the handler and the update thread each
\* accepted datapoint is used in exactly one averaging tick: a datapoint
\* leaves speed_datapoints only in a tick that averaged it, a tick that
\* finds datapoints averages all of them and leaves the list empty, and an
\* accepted datapoint stays with the handler until it is appended.
C33_DatapointsUsedOnce ==
    [][kind = "app"
          => /\ IF AveragingTick
                THEN /\ speed_datapoints # <<>>
                            => /\ current_speed' = SeqSum(speed_datapoints)
                                                       \div Len(speed_datapoints)
                               /\ speed_datapoints' = <<>>
                     /\ speed_datapoints = <<>> => speed_datapoints' = <<>>
                ELSE IF pc.handler = "locked" /\ pc'.handler = "idle"
                THEN speed_datapoints' = Append(speed_datapoints, pc.speed)
                ELSE speed_datapoints' = speed_datapoints
             /\ (pc.handler = "add" /\ pc'.handler # "add")
                    => pc'.handler = "locked" /\ pc'.speed = pc.speed
      ]_vars

\* The handler is waiting for the lock with an accepted datapoint while the
\* update thread, inside its locked block, has copied a list of one.
C33_Witness ==
    /\ kind = "app"
    /\ pc.handler = "add" /\ pc.speed = 1500
    /\ pc.worker = "averaging" /\ Len(pc.recent_datapoints) = 1
    /\ datapoints_lock = "worker"

\* C34: when no further datapoint is accepted and the update thread keeps
\* running, current_speed eventually becomes exactly 0.0 and stays 0.0, and
\* total_distance_km stops growing.
C34_DecaysToZero ==
    /\ <>[](current_speed = 0)
    /\ <>[][total_distance_km' = total_distance_km]_vars

\* A speed that was averaged from a datapoint has decayed to 0.0 after
\* distance had been added for it.
C34_Witness ==
    /\ kind = "app"
    /\ notified > 0
    /\ total_distance_km \notin Baselines
    /\ speed_datapoints = <<>>
    /\ current_speed = 0

\* C35: if the connection is lost after start_data_stream has started
\* streaming, then while running stays true the daemon eventually calls
\* disconnect and connects again.
C35_ReconnectAfterLoss ==
    (pc.link = "down") ~> (pc.service \in {"closed", "connecting"} \/ ~pc.running)

\* C36: while running is true every connect attempt that fails is followed by
\* a call of disconnect and then, after the wait, by another connect attempt;
\* once running is false no further connect attempt is started after the
\* current iteration.
C36_RetryWhileRunning ==
    /\ (pc.service = "retry") ~> (pc.service = "closed")
    /\ (pc.service = "closed") ~> (pc.service = "connecting" \/ ~pc.running)
    /\ [][kind = "fixed"
             => /\ pc.service = "retry" => pc'.service \in {"retry", "closed"}
                /\ pc.service = "closed" => pc'.service \in {"closed", "start"}
                /\ (pc'.service = "connecting" /\ pc.service # "connecting")
                       => pc.service = "start" /\ pc.running
                /\ (pc.service = "start" /\ ~pc.running) => pc'.service # "connecting"
                /\ pc.service = "stopped" => pc'.service = "stopped"
                /\ ~pc.running => ~pc'.running
         ]_vars

\* A second connect attempt is under way after a round that failed.
C36_Witness ==
    /\ kind = "fixed"
    /\ pc.service = "connecting"
    /\ pc.retried /\ pc.running
    /\ pc.link = "none"

\* C37: after stop_update_thread is called the update worker terminates and
\* the call returns; once it has returned the worker modifies neither
\* total_distance_km nor current_speed nor the menu bar display.
C37_WorkerStops ==
    /\ (pc.join = "joining") ~> (pc.join = "returned")
    /\ [](pc.join = "returned" => pc.worker = "done" /\ stop_updates)
    /\ [][pc.join = "returned"
             => /\ total_distance_km' = total_distance_km
                /\ current_speed' = current_speed
                /\ pc'.display = pc.display
                /\ pc'.worker = "done"]_vars

\* The call has returned on a worker that had counted distance and shown it.
C37_Witness ==
    /\ kind = "app"
    /\ pc.join = "returned"
    /\ pc.worker = "done"
    /\ current_speed > 0
    /\ pc.display = <<current_speed, total_distance_km>>
    /\ total_distance_km \notin Baselines

\* C38: at most one menu bar update timer is pending at any time, for
\* iConsoleMenuBarApp and for EnhancedMenuBarApp; update_data runs at most
\* once per 2-second period; quit_clicked cancels every pending timer.
C38_OneTimerPending ==
    /\ [](Cardinality(pc.pending) <= 1)
    /\ [](pc.menubar = "quit" => pc.pending = {})
    /\ [][(pc.updated # NoneInt /\ pc'.updated # pc.updated)
             => pc'.updated >= pc.updated + TimerDelay]_vars

====
